---- MODULE Spec2Model ----
(***************************************************************************)
(* Model of leap.mail's persistence core: the Soledad document wrapper     *)
(* (create / update / delete / get_or_create over a revisioned store), the *)
(* index initialisation of SoledadIndexMixin and the local mailbox UID     *)
(* table.  Every store call returns a Deferred: a request is issued in one *)
(* step and the store executes it, and fires its callbacks, in a later one.*)
(***************************************************************************)
EXTENDS Integers, Sequences, FiniteSets, TLC

\* ---------------------------------------------------------------- bounds

\* calls (create, update, delete) issued on the wrappers in one run
MaxOps == 3
\* largest value the wrapper's counter attribute is set to
MaxCounter == 1

\* documents a sync brings into the store
MaxSynced == 1
\* updates issued on the wrappers of such documents
MaxUpdates == 2

\* the wrapper instances of the document-wrapper specification
Wrappers == {"w1", "w2"}
Counters == 0..MaxCounter

\* ------------------------------------------------------- content model

\* class-level defaults of the model (CharacterWrapper.name, ActorWrapper.type_,
\* CounterWrapper.counter of the adaptor's tests)
DefaultAttrs == [type_ |-> "actor", name |-> "", counter |-> 0]

\* SerializableModel.serialize: every declared field, `type_` under the key `type`
Serialize(a) == [type |-> a.type_, name |-> a.name, counter |-> a.counter]

\* DocumentWrapper.__init__(**content): the keyword `type` sets the attribute `type_`
FromContent(c) == [type_ |-> c.type, name |-> c.name, counter |-> c.counter]

\* dict.update: the keys of `new` overwrite, every other key of `old` is kept
DictUpdate(old, new) ==
  [k \in DOMAIN old \cup DOMAIN new |-> IF k \in DOMAIN new THEN new[k] ELSE old[k]]

VARIABLES
  docs,       \* the store's documents, by doc_id: [content, rev, deleted]
  attrs,      \* attrs[w]: the attribute values of wrapper w
  doc_id,     \* doc_id[w]: w._doc_id, 0 for None
  locked,     \* locked[w]: w._lock.locked
  waiting,    \* waiting[w]: w._lock.waiting, the calls queued on the lock
  inflight,   \* calls that have a store request pending
  log,        \* log[w]: the calls of w that have completed, in completion order
  issued      \* how many calls were issued so far; the next call's number

docVars == <<docs, attrs, doc_id, locked, waiting, inflight, log, issued>>

VARIABLES
  db_indexes,    \* the store's live indexes: name -> field tuple, <<>> when absent
  klassLocked,   \* _k_locks[cls.__name__].locked
  klassWaiting,  \* the get_or_create calls queued on the class lock
  gocInflight,   \* get_or_create calls that have a store request pending
  gocLog,        \* the get_or_create calls that have completed, in completion order
  gocIssued      \* how many get_or_create calls were issued so far

klassVars == <<klassLocked, klassWaiting, gocInflight, gocLog, gocIssued>>

gocVars == <<db_indexes, klassVars>>

VARIABLES
  tables,        \* the UID table of each mailbox: [exists, rows], a row being <<uid, hash>>
  uidGiven,      \* per table, the uids its INSERTs were given so far
  uidPending,    \* insert_doc calls whose INSERT is done and whose SELECT MAX is pending
  uidReturned,   \* the insert_doc calls that returned: the row's uid and the value returned
  uidResult,     \* what the call that completed last returned
  uidIssued      \* how many insert_doc calls were issued so far

uidVars == <<tables, uidGiven, uidPending, uidReturned, uidResult, uidIssued>>

VARIABLES
  last_item,     \* the name of the last item of self.indexes.items()
  idxCalls,      \* the initialize_store calls, in issue order: [stage, gathered, ready]
  idxOps,        \* the create_index and delete_index requests that are pending
  idxDone,       \* the index requests that completed
  idxFailed,     \* the index requests that failed
  _index_creation_deferreds,  \* self._index_creation_deferreds, as index requests
  store_ready    \* self.store_ready

idxVars == <<last_item, idxCalls, idxOps, idxDone, idxFailed,
             _index_creation_deferreds, store_ready>>

VARIABLES
  get_all_result \* what the last call of get_all gave its caller

allVars == <<get_all_result>>

\* ------------------------------------------------------------ the store

\* what get_doc hands to its callback: None for an unknown or deleted document
NoneDoc == [found |-> FALSE, content |-> Serialize(DefaultAttrs), rev |-> 0]

get_doc(id) ==
  IF id \in 1..Len(docs) /\ ~docs[id].deleted
  THEN [found |-> TRUE, content |-> docs[id].content, rev |-> docs[id].rev]
  ELSE NoneDoc

\* a store that takes every write, whatever revision it was made from
RevisionIgnored(id, doc) == TRUE

\* put_doc and delete_doc refuse a document whose revision is not the stored one
RevisionMatches(id, doc) == id \in 1..Len(docs) /\ docs[id].rev = doc.rev

\* --------------------------------------------------- wrapper life cycle

DeleteCompleted(w) ==
  \E i \in 1..Len(log[w]) : log[w][i].kind = "delete" /\ log[w][i].res = "ok"

DeletePending(w) ==
  \/ \E i \in 1..Len(waiting[w]) : waiting[w][i].kind = "delete"
  \/ \E r \in inflight : r.w = w /\ r.kind = "delete"

\* where the wrapper stands when a call is issued on it
Lifecycle(w) ==
  IF doc_id[w] = 0 THEN "detached"
  ELSE IF DeleteCompleted(w) THEN "deleted"
  ELSE IF DeletePending(w) THEN "deleting"
  ELSE "attached"

\* a call as issued: its number, the wrapper's life cycle and serialized fields at
\* that moment; did is the document it then acts on, queued whether it had to wait
\* for the instance lock
NewOp(w, kind) ==
  [id |-> issued + 1, kind |-> kind, life |-> Lifecycle(w),
   snap |-> Serialize(attrs[w]), did |-> 0, queued |-> FALSE]

\* a completed call: its result, the revision the store returned (0: none), and
\* the number of store requests it issued
Entry(op, res, rev, nops, put) ==
  [id |-> op.id, kind |-> op.kind, life |-> op.life, snap |-> op.snap,
   did |-> op.did, queued |-> op.queued,
   res |-> res, rev |-> rev, nops |-> nops, put |-> put]

CreateAssertDropped(w) == TRUE
\* leap_assert(self._doc_id is None) of create
CreateAssert(w) == doc_id[w] = 0

UpdateAssertDropped(w) == TRUE
\* leap_assert(self._doc_id is not None) of _update
UpdateAssert(w) == doc_id[w] # 0

DeleteAssertDropped(w) == TRUE
\* leap_assert(self._doc_id is not None) of _delete
DeleteAssert(w) == doc_id[w] # 0

OpAssert(w, kind) == IF kind = "update" THEN UpdateAssert(w) ELSE DeleteAssert(w)

\* _update / _delete up to their first store call: store.get_doc(self._doc_id)
Started(w, op, underLock) ==
  [w |-> w, id |-> op.id, kind |-> op.kind, life |-> op.life, snap |-> op.snap,
   queued |-> op.queued, stage |-> "get_doc", did |-> doc_id[w],
   lock |-> underLock, nops |-> 1, doc |-> NoneDoc, put |-> op.snap]

\* DeferredLock.release: the lock goes to the first waiting call, whose function
\* runs at once; a function that raises releases the lock again, and so on
RECURSIVE AfterRelease(_, _, _)
AfterRelease(w, wq, lg) ==
  IF wq = <<>>
  THEN [locked |-> FALSE, waiting |-> <<>>, started |-> {}, log |-> lg]
  ELSE LET op == Head(wq) IN
       IF OpAssert(w, op.kind)
       THEN [locked |-> TRUE, waiting |-> Tail(wq),
             started |-> {Started(w, op, TRUE)}, log |-> lg]
       ELSE AfterRelease(w, Tail(wq),
                         Append(lg, Entry(op, "AssertionError", 0, 0, op.snap)))

\* DeferredLock.run(f): f runs now when the lock is free, else it is queued
LockRun(w, op) ==
  IF locked[w]
  THEN /\ waiting' = [waiting EXCEPT ![w] = Append(@, [op EXCEPT !.queued = TRUE])]
       /\ UNCHANGED <<locked, inflight, log>>
  ELSE LET r == AfterRelease(w, <<op>>, log[w]) IN
       /\ locked' = [locked EXCEPT ![w] = r.locked]
       /\ waiting' = [waiting EXCEPT ![w] = r.waiting]
       /\ inflight' = inflight \cup r.started
       /\ log' = [log EXCEPT ![w] = r.log]

\* f called without the lock
RunUnlocked(w, op) ==
  /\ IF OpAssert(w, op.kind)
     THEN inflight' = inflight \cup {Started(w, op, FALSE)} /\ log' = log
     ELSE /\ log' = [log EXCEPT ![w] =
                       Append(@, Entry(op, "AssertionError", 0, 0, op.snap))]
          /\ inflight' = inflight
  /\ UNCHANGED <<locked, waiting>>

\* a lock run whose release is a callback, not an errback too: a call that fails
\* keeps the lock
FinishReleasingOnSuccess(r, res, rev) ==
  LET e == Entry(r, res, rev, r.nops, r.put) IN
  IF r.lock /\ res = "ok"
  THEN LET a == AfterRelease(r.w, waiting[r.w], Append(log[r.w], e)) IN
       /\ locked' = [locked EXCEPT ![r.w] = a.locked]
       /\ waiting' = [waiting EXCEPT ![r.w] = a.waiting]
       /\ inflight' = (inflight \ {r}) \cup a.started
       /\ log' = [log EXCEPT ![r.w] = a.log]
  ELSE /\ log' = [log EXCEPT ![r.w] = Append(@, e)]
       /\ inflight' = inflight \ {r}
       /\ UNCHANGED <<locked, waiting>>

\* the call r ends with result res: its Deferred fires and, when it ran under the
\* instance lock, the lock is released
Finish(r, res, rev) ==
  LET e == Entry(r, res, rev, r.nops, r.put) IN
  IF r.lock
  THEN LET a == AfterRelease(r.w, waiting[r.w], Append(log[r.w], e)) IN
       /\ locked' = [locked EXCEPT ![r.w] = a.locked]
       /\ waiting' = [waiting EXCEPT ![r.w] = a.waiting]
       /\ inflight' = (inflight \ {r}) \cup a.started
       /\ log' = [log EXCEPT ![r.w] = a.log]
  ELSE /\ log' = [log EXCEPT ![r.w] = Append(@, e)]
       /\ inflight' = inflight \ {r}
       /\ UNCHANGED <<locked, waiting>>

\* ------------------------------------------------------ wrapper actions

\* an attribute assignment on the wrapper object (wrapper.counter += 1)
SetAttr(w, f, v) ==
  /\ attrs' = [attrs EXCEPT ![w][f] = v]
  /\ UNCHANGED <<docs, doc_id, locked, waiting, inflight, log, issued>>

\* SoledadDocumentWrapper.create
create(w) ==
  /\ issued < MaxOps
  /\ issued' = issued + 1
  /\ LET op == NewOp(w, "create") IN
     IF CreateAssert(w)
     THEN /\ inflight' = inflight \cup
               {[Started(w, op, FALSE) EXCEPT !.stage = "create_doc", !.did = 0,
                   !.doc = [found |-> TRUE, content |-> Serialize(attrs[w]), rev |-> 0]]}
          /\ log' = log
     ELSE /\ log' = [log EXCEPT ![w] =
                       Append(@, Entry(op, "AssertionError", 0, 0, op.snap))]
          /\ inflight' = inflight
  /\ UNCHANGED <<docs, attrs, doc_id, locked, waiting>>

update_unlocked(w) ==
  /\ issued < MaxOps
  /\ issued' = issued + 1
  /\ RunUnlocked(w, NewOp(w, "update"))
  /\ UNCHANGED <<docs, attrs, doc_id>>

\* the store receives, from a sync with another replica, a document of the class
\* whose content has a key the schema does not declare
StoreSyncedDoc ==
  /\ Len(docs) < MaxSynced
  /\ docs' = Append(docs, [content |-> DictUpdate(Serialize(DefaultAttrs), [tags |-> "seen"]),
                           rev |-> 1, deleted |-> FALSE])
  /\ UNCHANGED <<attrs, doc_id, locked, waiting, inflight, log, issued>>

\* SoledadDocumentWrapper.__init__(doc_id=id, ...): a new wrapper object for the
\* stored document id, in place of a wrapper no call was issued on
WrapDocument(w, id) ==
  /\ doc_id[w] = 0
  /\ log[w] = <<>> /\ waiting[w] = <<>> /\ ~locked[w]
  /\ \A r \in inflight : r.w # w
  /\ id \in 1..Len(docs)
  /\ doc_id' = [doc_id EXCEPT ![w] = id]
  /\ UNCHANGED <<docs, attrs, locked, waiting, inflight, log, issued>>

\* SoledadDocumentWrapper.update: self._lock.run(self._update, store)
update(w) ==
  /\ issued < MaxOps
  /\ issued' = issued + 1
  /\ LockRun(w, NewOp(w, "update"))
  /\ UNCHANGED <<docs, attrs, doc_id>>

\* delete that calls _delete without taking the instance lock
delete_unlocked(w) ==
  /\ issued < MaxOps
  /\ issued' = issued + 1
  /\ RunUnlocked(w, NewOp(w, "delete"))
  /\ UNCHANGED <<docs, attrs, doc_id>>

\* SoledadDocumentWrapper.delete: self._lock.run(self._delete, store)
delete(w) ==
  /\ issued < MaxOps
  /\ issued' = issued + 1
  /\ LockRun(w, NewOp(w, "delete"))
  /\ UNCHANGED <<docs, attrs, doc_id>>

\* _update that puts the serialized wrapper in place of the document's content
replace_and_put_doc(w, doc) ==
  [doc EXCEPT !.content = Serialize(attrs[w])]

put_unchanged_doc(w, doc) == doc
\* _update.update_and_put_doc: doc.content.update(self.serialize())
update_and_put_doc(w, doc) ==
  [doc EXCEPT !.content = DictUpdate(doc.content, Serialize(attrs[w]))]

\* the store answers a get_doc; the callback of _update or _delete runs
StoreGetDoc(r) ==
  /\ r.stage = "get_doc"
  /\ LET doc == get_doc(r.did) IN
     IF r.kind = "update"
     THEN IF doc.found
          THEN /\ inflight' = (inflight \ {r}) \cup
                    {[r EXCEPT !.stage = "put_doc", !.nops = 2,
                               !.doc = update_and_put_doc(r.w, doc),
                               !.put = Serialize(attrs[r.w])]}
               /\ UNCHANGED <<locked, waiting, log>>
          ELSE \* None has no attribute `content`
               Finish(r, "AttributeError", 0)
     ELSE /\ inflight' = (inflight \ {r}) \cup
               {[r EXCEPT !.stage = "delete_doc", !.nops = 2, !.doc = doc]}
          /\ UNCHANGED <<locked, waiting, log>>
  /\ UNCHANGED <<docs, attrs, doc_id, issued>>

\* the store executes a put_doc
StorePutDoc(r) ==
  /\ r.stage = "put_doc"
  /\ IF RevisionMatches(r.did, r.doc)
     THEN /\ docs' = [docs EXCEPT ![r.did] =
                       [content |-> r.doc.content, rev |-> r.doc.rev + 1,
                        deleted |-> FALSE]]
          /\ Finish(r, "ok", r.doc.rev + 1)
     ELSE /\ docs' = docs
          /\ Finish(r, "RevisionConflict", 0)
  /\ UNCHANGED <<attrs, doc_id, issued>>

\* the store executes a delete_doc
StoreDeleteDoc(r) ==
  /\ r.stage = "delete_doc"
  /\ IF ~r.doc.found
     THEN docs' = docs /\ Finish(r, "AttributeError", 0)
     ELSE IF RevisionMatches(r.did, r.doc)
     THEN /\ docs' = [docs EXCEPT ![r.did].deleted = TRUE,
                                  ![r.did].rev = r.doc.rev + 1]
          /\ Finish(r, "ok", r.doc.rev + 1)
     ELSE /\ docs' = docs
          /\ Finish(r, "RevisionConflict", 0)
  /\ UNCHANGED <<attrs, doc_id, issued>>

\* create_doc whose callback leaves the wrapper's identifier alone
StoreCreateDocOnly(r) ==
  /\ r.stage = "create_doc"
  /\ docs' = Append(docs, [content |-> r.doc.content, rev |-> 1, deleted |-> FALSE])
  /\ Finish(r, "ok", 1)
  /\ UNCHANGED <<attrs, doc_id, issued>>

\* the store executes a create_doc; create's callback update_doc_id runs
StoreCreateDoc(r) ==
  /\ r.stage = "create_doc"
  /\ docs' = Append(docs, [content |-> r.doc.content, rev |-> 1, deleted |-> FALSE])
  /\ doc_id' = [doc_id EXCEPT ![r.w] = Len(docs) + 1]
  /\ Finish(r, "ok", 1)
  /\ UNCHANGED <<attrs, issued>>


\* -------------------------------------------------------- get_or_create

\* TestAdaptor.indexes of the adaptor's tests
Catalog ==
  [n \in {"by-name", "by-type-and-name", "by-type"} |->
     CASE n = "by-name" -> <<"name">>
       [] n = "by-type-and-name" -> <<"type", "name">>
       [] OTHER -> <<"type">>]

IndexNames == DOMAIN Catalog

\* model.__meta__.index
MainIndex == "name"

\* cls.model.serialize(): the class-level defaults
ClassFields == Serialize(DefaultAttrs)

\* the store's get_from_index: the live documents whose index fields equal values
get_from_index(index, values) ==
  {id \in 1..Len(docs) :
     /\ ~docs[id].deleted
     /\ Len(db_indexes[index]) = Len(values)
     /\ \A i \in 1..Len(values) : docs[id].content[db_indexes[index][i]] = values[i]}

\* try_to_get_doc_from_index that gives the value for every field of the index
try_to_get_doc_by_value_only(idx_def, value) == [i \in 1..Len(idx_def) |-> value]

\* _get_or_create.try_to_get_doc_from_index: the values to query the index with
try_to_get_doc_from_index(idx_def, value) ==
  IF Len(idx_def) = 1
  THEN <<value>>
  ELSE [i \in 1..Len(idx_def) |->
          IF idx_def[i] = MainIndex THEN value ELSE ClassFields[idx_def[i]]]

\* get_first_doc_if_any that takes a single match for none
get_first_doc_unless_single(found) ==
  IF Cardinality(found) > 1 THEN "DuplicatedDocumentError" ELSE "none"

get_first_doc_ignoring_duplicates(found) ==
  IF found = {} THEN "none" ELSE "one"
\* _get_or_create.get_first_doc_if_any
get_first_doc_if_any(found) ==
  IF found = {} THEN "none"
  ELSE IF Cardinality(found) > 1 THEN "DuplicatedDocumentError"
  ELSE "one"

\* get_wrapper_instance_from_index that leaves the value out of the new wrapper
get_wrapper_instance_of_defaults(idx_def, value) == DefaultAttrs

\* _get_or_create.get_wrapper_instance_from_index: the new wrapper's attributes
get_wrapper_instance_from_index(idx_def, value) ==
  LET init_values ==
        IF Len(idx_def) = 1
        THEN [f \in {idx_def[1]} |-> value]
        ELSE [f \in {idx_def[i] : i \in 1..Len(idx_def)} |->
                IF f = MainIndex THEN value ELSE ClassFields[f]]
  IN FromContent(DictUpdate(ClassFields, init_values))

NewCall(index, value) ==
  [id |-> gocIssued + 1, index |-> index, value |-> value, queued |-> FALSE]

\* _get_or_create up to its first store call: store.list_indexes()
GocStarted(call, underLock) ==
  [id |-> call.id, index |-> call.index, value |-> call.value,
   queued |-> call.queued, lock |-> underLock, stage |-> "list_indexes",
   values |-> <<>>, matched |-> 0, content |-> ClassFields]

\* a completed get_or_create: res is "wrapper" or the error; attrs and doc_id are
\* those of the wrapper returned; created and new_id tell whether, and which,
\* document the call created; matched is how many documents its query returned
GocEntry(c, res, wattrs, wid, created, new_id) ==
  [id |-> c.id, index |-> c.index, value |-> c.value, queued |-> c.queued,
   values |-> c.values, matched |-> c.matched, res |-> res,
   attrs |-> wattrs, doc_id |-> wid, created |-> created, new_id |-> new_id]

\* the call c ends: its Deferred fires and the class lock, if c held it, goes to
\* the next waiting call
GocFinish(c, e) ==
  /\ gocLog' = Append(gocLog, e)
  /\ IF c.lock /\ klassWaiting # <<>>
     THEN /\ gocInflight' = (gocInflight \ {c}) \cup {GocStarted(Head(klassWaiting), TRUE)}
          /\ klassWaiting' = Tail(klassWaiting)
          /\ klassLocked' = TRUE
     ELSE /\ gocInflight' = gocInflight \ {c}
          /\ klassWaiting' = klassWaiting
          /\ klassLocked' = IF c.lock THEN FALSE ELSE klassLocked

\* bound on the calls of one run that has get_or_create calls: these and the
\* direct create calls together
MaxCalls == 3

get_or_create_unlocked(index, value) ==
  /\ issued + gocIssued < MaxCalls
  /\ gocIssued' = gocIssued + 1
  /\ gocInflight' = gocInflight \cup {GocStarted(NewCall(index, value), FALSE)}
  /\ UNCHANGED <<db_indexes, klassLocked, klassWaiting, gocLog, docVars>>

\* SoledadDocumentWrapper.get_or_create:
\* cls._get_klass_lock().run(cls._get_or_create, store, index, value)
get_or_create(index, value) ==
  /\ issued + gocIssued < MaxCalls
  /\ gocIssued' = gocIssued + 1
  /\ IF klassLocked
     THEN /\ klassWaiting' =
               Append(klassWaiting, [NewCall(index, value) EXCEPT !.queued = TRUE])
          /\ UNCHANGED <<klassLocked, gocInflight>>
     ELSE /\ klassLocked' = TRUE
          /\ gocInflight' = gocInflight \cup {GocStarted(NewCall(index, value), TRUE)}
          /\ UNCHANGED klassWaiting
  /\ UNCHANGED <<db_indexes, gocLog, docVars>>

\* the store answers the first list_indexes; try_to_get_doc_from_index runs
GocListIndexes(c) ==
  /\ c.stage = "list_indexes"
  /\ IF db_indexes[c.index] = <<>>
     THEN \* dict(indexes)[index] raises
          GocFinish(c, GocEntry(c, "KeyError", DefaultAttrs, 0, FALSE, 0))
     ELSE /\ gocInflight' = (gocInflight \ {c}) \cup
               {[c EXCEPT !.stage = "get_from_index",
                          !.values = try_to_get_doc_from_index(db_indexes[c.index], c.value)]}
          /\ UNCHANGED <<klassLocked, klassWaiting, gocLog>>
  /\ UNCHANGED <<db_indexes, gocIssued, docVars>>

\* the store answers get_from_index; get_first_doc_if_any and
\* wrap_existing_or_create_new run
GocGetFromIndex(c) ==
  /\ c.stage = "get_from_index"
  /\ LET found == get_from_index(c.index, c.values)
         first == get_first_doc_if_any(found)
         c1 == [c EXCEPT !.matched = Cardinality(found)]
     IN CASE first = "DuplicatedDocumentError" ->
               GocFinish(c, GocEntry(c1, first, DefaultAttrs, 0, FALSE, 0))
          [] first = "one" ->
               \* cls(**doc.content): the content holds no doc_id
               LET id == CHOOSE i \in found : TRUE
               IN GocFinish(c, GocEntry(c1, "wrapper", FromContent(docs[id].content),
                                        0, FALSE, 0))
          [] OTHER ->
               \* create_and_wrap_new_doc: store.list_indexes() again
               /\ gocInflight' = (gocInflight \ {c}) \cup
                    {[c1 EXCEPT !.stage = "list_indexes_again"]}
               /\ UNCHANGED <<klassLocked, klassWaiting, gocLog>>
  /\ UNCHANGED <<db_indexes, gocIssued, docVars>>

\* the store answers the second list_indexes; get_wrapper_instance_from_index and
\* return_wrapper_when_created run: wrapper.create(store)
GocListIndexesAgain(c) ==
  /\ c.stage = "list_indexes_again"
  /\ IF db_indexes[c.index] = <<>>
     THEN GocFinish(c, GocEntry(c, "KeyError", DefaultAttrs, 0, FALSE, 0))
     ELSE /\ gocInflight' = (gocInflight \ {c}) \cup
               {[c EXCEPT !.stage = "create_doc",
                          !.content = Serialize(
                             get_wrapper_instance_from_index(db_indexes[c.index], c.value))]}
          /\ UNCHANGED <<klassLocked, klassWaiting, gocLog>>
  /\ UNCHANGED <<db_indexes, gocIssued, docVars>>

\* the store executes the create_doc of the new wrapper; update_doc_id runs and
\* the wrapper is returned
GocCreateDoc(c) ==
  /\ c.stage = "create_doc"
  /\ docs' = Append(docs, [content |-> c.content, rev |-> 1, deleted |-> FALSE])
  /\ GocFinish(c, GocEntry(c, "wrapper", FromContent(c.content), Len(docs) + 1,
                           TRUE, Len(docs) + 1))
  /\ UNCHANGED <<db_indexes, gocIssued,
                 attrs, doc_id, locked, waiting, inflight, log, issued>>


\* ---------------------------------------------------------------- get_all

\* what a call gives its caller: the exception it raises ("": none) and, when it
\* returns, None or wrappers, those being told by their names
Returned(err, value, names) ==
  [called |-> TRUE, err |-> err, value |-> value, names |-> names]

NotCalled == [called |-> FALSE, err |-> "", value |-> "None", names |-> {}]

\* the names of the documents in the store
StoredNames == {docs[id].content.name : id \in {i \in 1..Len(docs) : ~docs[i].deleted}}

\* SoledadDocumentWrapper.get_all, a classmethod declared get_all(cls) whose body
\* is `pass`, called with nargs arguments: get_all(store) is one argument too many
get_all(nargs) ==
  /\ get_all_result' = IF nargs = 0 THEN Returned("", "None", {})
                                    ELSE Returned("TypeError", "None", {})
  /\ UNCHANGED <<docVars, gocVars>>

\* ------------------------------------------------------ mailbox UID table

\* bound on the insert_doc calls of one run
MaxInserts == 2

Mailboxes == {"inbox", "foomailbox"}
Hashes == {"h0", "h1"}

NoTable == [exists |-> FALSE, rows |-> {}]

Uids(rows) == {r[1] : r \in rows}
RowHashes(rows) == {r[2] : r \in rows}
\* the smallest uid of the rows
MinUid(rows) == CHOOSE u \in Uids(rows) : \A v \in Uids(rows) : u <= v

MaxUid(rows) == CHOOSE u \in Uids(rows) : \A v \in Uids(rows) : v <= u

\* the rowid SQLite gives a row inserted with uid NULL into a table declared
\* `uid INTEGER PRIMARY KEY`: one more than the largest uid now in the table
NextRowid(m) ==
  IF tables[m].rows = {} THEN 1 ELSE MaxUid(tables[m].rows) + 1

\* what the Deferred of the call op fires with: the error it failed with ("":
\* none), or the number or the hash it returned
Result(op, err, num, hash) == [op |-> op, err |-> err, num |-> num, hash |-> hash]

NoResult == Result("", "", 0, "")

\* DROP TABLE if exists, then CREATE TABLE
create_table_afresh(m) ==
  /\ tables' = [tables EXCEPT ![m] = [exists |-> TRUE, rows |-> {}]]
  /\ uidResult' = Result("create_table", "", 0, "")
  /\ UNCHANGED <<uidGiven, uidPending, uidReturned, uidIssued>>

\* MailboxUID.create_table: CREATE TABLE if not exists
create_table(m) ==
  /\ tables' = [tables EXCEPT ![m] = IF @.exists THEN @ ELSE [exists |-> TRUE, rows |-> {}]]
  /\ uidResult' = Result("create_table", "", 0, "")
  /\ UNCHANGED <<uidGiven, uidPending, uidReturned, uidIssued>>

\* MailboxUID.delete_table: DROP TABLE if exists
delete_table(m) ==
  /\ tables' = [tables EXCEPT ![m] = NoTable]
  /\ uidGiven' = [uidGiven EXCEPT ![m] = {}]
  /\ uidResult' = Result("delete_table", "", 0, "")
  /\ UNCHANGED <<uidPending, uidReturned, uidIssued>>

\* CREATE TABLE new AS SELECT * FROM old
copy_table(old, new) ==
  /\ IF old = new
     THEN /\ uidResult' = Result("rename_table", "AssertionError", 0, "")
          /\ UNCHANGED <<tables, uidGiven>>
     ELSE IF ~tables[old].exists \/ tables[new].exists
     THEN /\ uidResult' = Result("rename_table", "OperationalError", 0, "")
          /\ UNCHANGED <<tables, uidGiven>>
     ELSE /\ tables' = [tables EXCEPT ![new] = tables[old]]
          /\ uidGiven' = [uidGiven EXCEPT ![new] = uidGiven[old]]
          /\ uidResult' = Result("rename_table", "", 0, "")
  /\ UNCHANGED <<uidPending, uidReturned, uidIssued>>

\* MailboxUID.rename_table: ALTER TABLE old RENAME TO new
rename_table(old, new) ==
  /\ IF old = new
     THEN /\ uidResult' = Result("rename_table", "AssertionError", 0, "")
          /\ UNCHANGED <<tables, uidGiven>>
     ELSE IF ~tables[old].exists \/ tables[new].exists
     THEN /\ uidResult' = Result("rename_table", "OperationalError", 0, "")
          /\ UNCHANGED <<tables, uidGiven>>
     ELSE /\ tables' = [tables EXCEPT ![new] = tables[old], ![old] = NoTable]
          /\ uidGiven' = [uidGiven EXCEPT ![new] = uidGiven[old], ![old] = {}]
          /\ uidResult' = Result("rename_table", "", 0, "")
  /\ UNCHANGED <<uidPending, uidReturned, uidIssued>>

\* an INSERT into a table whose hash column is not declared UNIQUE
insert_doc_any_hash(m, h) ==
  /\ uidIssued < MaxInserts
  /\ uidIssued' = uidIssued + 1
  /\ IF ~tables[m].exists
     THEN /\ uidResult' = Result("insert_doc", "OperationalError", 0, "")
          /\ UNCHANGED <<tables, uidGiven, uidPending>>
     ELSE /\ tables' = [tables EXCEPT ![m].rows = @ \cup {<<NextRowid(m), h>>}]
          /\ uidGiven' = [uidGiven EXCEPT ![m] = @ \cup {NextRowid(m)}]
          /\ uidPending' = uidPending \cup
               {[mbox |-> m, hash |-> h, uid |-> NextRowid(m)]}
          /\ UNCHANGED uidResult
  /\ UNCHANGED uidReturned

\* MailboxUID.insert_doc, its first query: INSERT INTO table VALUES (NULL, ?)
insert_doc(m, h) ==
  /\ uidIssued < MaxInserts
  /\ uidIssued' = uidIssued + 1
  /\ IF ~tables[m].exists
     THEN \* no such table: the Deferred fails, the second query is not made
          /\ uidResult' = Result("insert_doc", "OperationalError", 0, "")
          /\ UNCHANGED <<tables, uidGiven, uidPending>>
     ELSE IF h \in RowHashes(tables[m].rows)
     THEN \* hash TEXT UNIQUE
          /\ uidResult' = Result("insert_doc", "IntegrityError", 0, "")
          /\ UNCHANGED <<tables, uidGiven, uidPending>>
     ELSE /\ tables' = [tables EXCEPT ![m].rows = @ \cup {<<NextRowid(m), h>>}]
          /\ uidGiven' = [uidGiven EXCEPT ![m] = @ \cup {NextRowid(m)}]
          /\ uidPending' = uidPending \cup
               {[mbox |-> m, hash |-> h, uid |-> NextRowid(m)]}
          /\ UNCHANGED uidResult
  /\ UNCHANGED uidReturned

\* MailboxUID.insert_doc, its second query and get_rowid:
\* SELECT MAX(rowid) FROM table LIMIT 1, of which result[0][0] is returned
InsertDocSelectMax(p) ==
  /\ uidPending' = uidPending \ {p}
  /\ uidReturned' = uidReturned \cup
       {[mbox |-> p.mbox, hash |-> p.hash, uid |-> p.uid,
         err |-> IF tables[p.mbox].exists THEN "" ELSE "OperationalError",
         ret |-> IF tables[p.mbox].exists /\ tables[p.mbox].rows # {}
                 THEN MaxUid(tables[p.mbox].rows) ELSE 0]}
  /\ uidResult' = Result("insert_doc",
                         IF tables[p.mbox].exists THEN "" ELSE "OperationalError",
                         IF tables[p.mbox].exists /\ tables[p.mbox].rows # {}
                         THEN MaxUid(tables[p.mbox].rows) ELSE 0, "")
  /\ UNCHANGED <<tables, uidGiven, uidIssued>>

\* DELETE FROM table WHERE uid<=?
delete_docs_up_to_uid(m, uid) ==
  /\ IF tables[m].exists
     THEN /\ tables' = [tables EXCEPT ![m].rows = {r \in @ : r[1] > uid}]
          /\ uidResult' = Result("delete_doc_by_uid", "", 0, "")
     ELSE /\ uidResult' = Result("delete_doc_by_uid", "OperationalError", 0, "")
          /\ UNCHANGED tables
  /\ UNCHANGED <<uidGiven, uidPending, uidReturned, uidIssued>>

\* MailboxUID.delete_doc_by_uid: DELETE FROM table WHERE uid=?
delete_doc_by_uid(m, uid) ==
  /\ IF tables[m].exists
     THEN /\ tables' = [tables EXCEPT ![m].rows = {r \in @ : r[1] # uid}]
          /\ uidResult' = Result("delete_doc_by_uid", "", 0, "")
     ELSE /\ uidResult' = Result("delete_doc_by_uid", "OperationalError", 0, "")
          /\ UNCHANGED tables
  /\ UNCHANGED <<uidGiven, uidPending, uidReturned, uidIssued>>

\* MailboxUID.delete_doc_by_hash: DELETE FROM table WHERE hash=?
delete_doc_by_hash(m, h) ==
  /\ IF tables[m].exists
     THEN /\ tables' = [tables EXCEPT ![m].rows = {r \in @ : r[2] # h}]
          /\ uidResult' = Result("delete_doc_by_hash", "", 0, "")
     ELSE /\ uidResult' = Result("delete_doc_by_hash", "OperationalError", 0, "")
          /\ UNCHANGED tables
  /\ UNCHANGED <<uidGiven, uidPending, uidReturned, uidIssued>>

\* MailboxUID.get_doc_from_uid: SELECT hash from table WHERE uid=?, then
\* get_hash returns result[0][0]
get_doc_from_uid(m, uid) ==
  /\ uidResult' =
       IF ~tables[m].exists
       THEN Result("get_doc_from_uid", "OperationalError", 0, "")
       ELSE IF uid \notin Uids(tables[m].rows)
       THEN Result("get_doc_from_uid", "IndexError", 0, "")
       ELSE Result("get_doc_from_uid", "", 0,
                   (CHOOSE r \in tables[m].rows : r[1] = uid)[2])
  /\ UNCHANGED <<tables, uidGiven, uidPending, uidReturned, uidIssued>>

\* a count of the rows the table was ever given
count_given(m) ==
  /\ uidResult' =
       IF ~tables[m].exists
       THEN Result("count", "OperationalError", 0, "")
       ELSE Result("count", "", Cardinality(uidGiven[m]), "")
  /\ UNCHANGED <<tables, uidGiven, uidPending, uidReturned, uidIssued>>

\* MailboxUID.count: SELECT Count(*) FROM table, then get_count
count(m) ==
  /\ uidResult' =
       IF ~tables[m].exists
       THEN Result("count", "OperationalError", 0, "")
       ELSE Result("count", "", Cardinality(tables[m].rows), "")
  /\ UNCHANGED <<tables, uidGiven, uidPending, uidReturned, uidIssued>>


\* ------------------------------------------------- index initialisation

\* bound on the initialize_store calls of one run
MaxInitCalls == 1

\* a live definition that differs from the catalog's: the fields in another order,
\* or another field
Stale(n) ==
  IF Len(Catalog[n]) > 1
  THEN [i \in 1..Len(Catalog[n]) |-> Catalog[n][Len(Catalog[n]) + 1 - i]]
  ELSE <<"counter">>

\* the live index sets a store can have: each catalog entry absent, up to date or
\* defined otherwise
LiveIndexes ==
  {l \in [IndexNames -> UNION {{<<>>, Stale(n), Catalog[n]} : n \in IndexNames}] :
     \A n \in IndexNames : l[n] \in {<<>>, Stale(n), Catalog[n]}}

\* a request made to the store by call number `call`: create_index(name,
\* *Catalog[name]) or delete_index(name); `after` is the index whose deletion the
\* request is the callback of, "" for a request made by the loop itself
IndexOp(call, kind, name, after) ==
  [call |-> call, kind |-> kind, name |-> name, after |-> after]

\* defer.gatherResults(deferreds): fails as soon as one of them has failed, fires
\* when all of them (none included) have fired
gatherResults(deferreds, done, failed) ==
  IF deferreds \cap failed # {} THEN "failed"
  ELSE IF deferreds \subseteq done THEN "fired"
  ELSE "gathering"

\* gatherResults that takes the first result as the result of all
gatherFirstResult(deferreds, done, failed) ==
  IF deferreds \cap failed # {} THEN "failed"
  ELSE IF deferreds = {} \/ deferreds \cap done # {} THEN "fired"
  ELSE "gathering"

\* a loop that calls _create_index for every catalog entry
EveryIndex == IndexNames

\* the names the loop of _create_indexes calls _create_index for
MissingIndexes == {n \in IndexNames : db_indexes[n] = <<>>}

\* a loop over the live indexes that deletes every one the catalog does not
\* declare as it is
StrayIndexes ==
  {n \in DOMAIN db_indexes :
     db_indexes[n] # <<>> /\ (n \notin IndexNames \/ db_indexes[n] # Catalog[n])}

\* the names the loop of _create_indexes calls store.delete_index for
MismatchedIndexes ==
  {n \in IndexNames : db_indexes[n] # <<>> /\ db_indexes[n] # Catalog[n]}

\* SoledadIndexMixin.initialize_store up to store.list_indexes()
initialize_store ==
  /\ Len(idxCalls) < MaxInitCalls
  /\ _index_creation_deferreds' = {}
  /\ idxCalls' = Append(idxCalls, [stage |-> "listing", gathered |-> {}, ready |-> FALSE])
  /\ UNCHANGED <<db_indexes, last_item, idxOps, idxDone, idxFailed, store_ready>>

\* the store answers list_indexes: the callback _create_indexes runs, its loop and
\* the gatherResults after it
_create_indexes(c) ==
  /\ idxCalls[c].stage = "listing"
  /\ LET creates == {IndexOp(c, "create", n, "") : n \in MissingIndexes}
         deletes == {IndexOp(c, "delete", n, "") : n \in MismatchedIndexes}
         all_created == _index_creation_deferreds \cup creates
         stage == gatherResults(all_created, idxDone, idxFailed)
     IN /\ idxOps' = idxOps \cup creates \cup deletes
        /\ _index_creation_deferreds' = all_created
        /\ idxCalls' = [idxCalls EXCEPT ![c] =
                          [stage |-> stage, gathered |-> all_created,
                           ready |-> stage = "fired"]]
        \* _on_indexes_created
        /\ store_ready' = (store_ready \/ stage = "fired")
  /\ UNCHANGED <<db_indexes, last_item, idxDone, idxFailed>>

\* the calls whose all_created holds the request o, after o has completed
\* (done and failed being the requests completed by then)
AfterIndexOp(o, done, failed) ==
  [k \in DOMAIN idxCalls |->
     IF idxCalls[k].stage = "gathering" /\ o \in idxCalls[k].gathered
     THEN [idxCalls[k] EXCEPT
             !.stage = gatherResults(idxCalls[k].gathered, done, failed),
             !.ready = gatherResults(idxCalls[k].gathered, done, failed) = "fired"]
     ELSE idxCalls[k]]

\* the store answers a create_index: an index of that name and another definition
\* is an error, and so is a fault of the store (ok = FALSE)
StoreCreateIndex(o, ok) ==
  /\ o \in idxOps
  /\ o.kind = "create"
  /\ idxOps' = idxOps \ {o}
  /\ IF ok /\ db_indexes[o.name] \in {<<>>, Catalog[o.name]}
     THEN /\ db_indexes' = [db_indexes EXCEPT ![o.name] = Catalog[o.name]]
          /\ idxDone' = idxDone \cup {o}
          /\ UNCHANGED idxFailed
     ELSE /\ idxFailed' = idxFailed \cup {o}
          /\ UNCHANGED <<db_indexes, idxDone>>
  /\ idxCalls' = AfterIndexOp(o, idxDone', idxFailed')
  \* _on_indexes_created
  /\ store_ready' = (store_ready \/ \E k \in DOMAIN idxCalls :
                                      idxCalls'[k].ready /\ ~idxCalls[k].ready)
  /\ UNCHANGED <<last_item, _index_creation_deferreds>>

\* the store answers a delete_index; its callback is
\* lambda _: _create_index(name, expression), name and expression being the
\* variables of the loop, which ended on the last item
StoreDeleteIndex(o, ok) ==
  /\ o \in idxOps
  /\ o.kind = "delete"
  /\ IF ok
     THEN /\ db_indexes' = [db_indexes EXCEPT ![o.name] = <<>>]
          /\ idxDone' = idxDone \cup {o}
          /\ idxOps' = (idxOps \ {o}) \cup {IndexOp(o.call, "create", last_item, o.name)}
          /\ _index_creation_deferreds' =
               _index_creation_deferreds \cup {IndexOp(o.call, "create", last_item, o.name)}
          /\ UNCHANGED idxFailed
     ELSE /\ idxFailed' = idxFailed \cup {o}
          /\ idxOps' = idxOps \ {o}
          /\ UNCHANGED <<db_indexes, idxDone, _index_creation_deferreds>>
  /\ UNCHANGED <<last_item, idxCalls, store_ready>>

\* ------------------------------------------------- message decomposition

VARIABLES
  raw_msg,       \* the message given to get_msg_from_string: [headers, parts]
  fdoc,          \* the flags payload of _split_into_parts, NoPayload before the call
  hdoc,          \* its header payload
  cdocs          \* its content payloads, by part number

msgVars == <<raw_msg, fdoc, hdoc, cdocs>>

\* bound on the header lines of a message
MaxHeaders == 2

\* header names as messages write them, and header values
HeaderNames == {"Subject", "subject", "Date", "date", "Received"}
HeaderValues == {"a", "b"}

\* the payloads of a message: one part, or the parts of a multipart message
Payloads == {<<"hi">>, <<"hi", "<p>hi</p>">>}

\* the messages of the model: header lines <<name, value>> in message order, and
\* the parts
Messages ==
  {[headers |-> h, parts |-> p] :
     h \in UNION {[1..n -> HeaderNames \X HeaderValues] : n \in 0..MaxHeaders},
     p \in Payloads}

\* str.join
RECURSIVE join(_, _)
join(sep, strs) ==
  IF strs = <<>> THEN ""
  ELSE IF Len(strs) = 1 THEN strs[1]
  ELSE strs[1] \o sep \o join(sep, Tail(strs))

\* the text of a message: its header lines, an empty line and the body, the parts
\* of a multipart body between boundary lines
Raw(msg) ==
  join("", [i \in 1..Len(msg.headers) |->
              msg.headers[i][1] \o ": " \o msg.headers[i][2] \o "\n"])
  \o "\n"
  \o (IF Len(msg.parts) = 1 THEN msg.parts[1]
      ELSE join("", [i \in 1..Len(msg.parts) |-> "--b\n\n" \o msg.parts[i] \o "\n"])
           \o "--b--\n")

\* sha256.SHA256(s).hexdigest(): a digest that differs for different texts
SHA256(s) == "sha256:" \o s

\* str.lower on the header names of the model
lower(k) ==
  CASE k = "Subject" -> "subject"
    [] k = "Date" -> "date"
    [] k = "Received" -> "received"
    [] OTHER -> k

\* the wrapper's serialize(): every field of the model, `type_` under the key `type`
SerializeFields(a) ==
  [k \in (DOMAIN a \ {"type_"}) \cup {"type"} |-> IF k = "type" THEN a.type_ ELSE a[k]]

\* FlagsDocWrapper.model
FlagsDocModel ==
  [type_ |-> "flags", chash |-> "", mbox |-> "inbox", seen |-> FALSE,
   deleted |-> FALSE, recent |-> FALSE, multi |-> FALSE, flags |-> <<>>,
   tags |-> <<>>, size |-> 0]

\* HeaderDocWrapper.model
HeaderDocModel ==
  [type_ |-> "head", chash |-> "", date |-> "", subject |-> "", headers |-> <<>>,
   part_map |-> <<>>, body |-> "", msgid |-> ""]

\* ContentDocWrapper.model
ContentDocModel ==
  [type_ |-> "cnt", phash |-> "", ctype |-> "", lkf |-> <<>>, raw |-> ""]

\* the empty message
NoMessage == [headers |-> <<>>, parts |-> <<"">>]

\* the value of fdoc, hdoc before a message was decomposed
NoPayload == [type |-> "none"]

\* a parse that takes hash and size of the body alone
_parse_msg_of_body(msg) ==
  [items |-> msg.headers,
   parts |-> msg.parts,
   size |-> Len(join("", msg.parts)),
   chash |-> SHA256(join("", msg.parts)),
   multi |-> Len(msg.parts) > 1]

\* _parse_msg: message_from_string(raw) and what is computed of it; msg.items()
\* are the header lines in message order, names as written
_parse_msg(msg) ==
  [items |-> msg.headers,
   parts |-> msg.parts,
   size |-> Len(Raw(msg)),
   chash |-> SHA256(Raw(msg)),
   multi |-> Len(msg.parts) > 1]

\* walk.get_body_phash_simple / walk.get_body_phash_multi of the payloads
body_phash(parsed) == SHA256(parsed.parts[1])

\* walk.walk_msg_tree: the keys merged into the header payload
walk_msg_tree(parsed) ==
  [multi |-> parsed.multi,
   body |-> body_phash(parsed),
   part_map |-> [i \in 1..Len(parsed.parts) |->
                   [phash |-> SHA256(parsed.parts[i]), size |-> Len(parsed.parts[i])]]]

\* utils.stringify_parts_map: the part numbers of part_map become strings
stringify_parts_map(doc) ==
  [doc EXCEPT !.part_map =
     [k \in {ToString(i) : i \in DOMAIN doc.part_map} |->
        doc.part_map[CHOOSE i \in DOMAIN doc.part_map : ToString(i) = k]]]

\* _build_flags_doc
_build_flags_doc(chash, size, multi) ==
  SerializeFields([FlagsDocModel EXCEPT !.chash = chash, !.size = size, !.multi = multi])

\* the first loop of _build_headers_doc: headers[k].append(v) for the items
HeaderLists(items) ==
  [k \in {items[i][1] : i \in 1..Len(items)} |->
     LET own == SelectSeq(items, LAMBDA it : it[1] = k)
     IN [i \in 1..Len(own) |-> own[i][2]]]

\* a dict filled with headers[k] = v: a later line overwrites an earlier one
KeepLast(lists) ==
  [k \in DOMAIN lists |-> lists[k][Len(lists[k])]]

\* its second loop: headers[k] = ("\n%s: " % (k,)).join(v)
JoinRepeated(lists) ==
  [k \in DOMAIN lists |-> join("\n" \o k \o ": ", lists[k])]

\* utils.lowerdict(headers); of two names that differ in case only one is kept
lowerdict(headers) ==
  [l \in {lower(k) : k \in DOMAIN headers} |->
     headers[CHOOSE k \in DOMAIN headers : lower(k) = l]]

\* first(_MSGID_RE.findall(lower_headers.get('message-id', ''))): no message of
\* the model has a Message-Id header
MsgId(lower_headers) ==
  IF "message-id" \in DOMAIN lower_headers THEN lower_headers["message-id"] ELSE ""

\* _build_headers_doc.copy_attr: setattr(doc, key, headers[key]) if key in headers
copy_attr(headers, key, doc) ==
  IF key \in DOMAIN headers THEN [doc EXCEPT ![key] = headers[key]] ELSE doc

\* _build_headers_doc
_build_headers_doc(parsed, chash, parts_map) ==
  LET headers == JoinRepeated(HeaderLists(parsed.items))
      _hdoc == [HeaderDocModel EXCEPT !.chash = chash, !.headers = headers,
                                      !.msgid = MsgId(lowerdict(headers))]
      copied == copy_attr(headers, "date", copy_attr(headers, "subject", _hdoc))
  IN stringify_parts_map(DictUpdate(SerializeFields(copied), parts_map))

\* walk.get_raw_docs, enumerated from 1
get_raw_docs(parsed) ==
  [i \in 1..Len(parsed.parts) |->
     SerializeFields([ContentDocModel EXCEPT !.phash = SHA256(parsed.parts[i]),
                                             !.raw = parsed.parts[i]])]

\* enumerate(raw_docs, start), as a dict
enumerate(raw_docs, start) ==
  [k \in start..(start + Len(raw_docs) - 1) |-> raw_docs[k - start + 1]]

\* dict(enumerate(raw_docs)): the keys count from 0
zero_indexed(raw_docs) == enumerate(raw_docs, 0)

\* _split_into_parts: cdocs = dict(enumerate(walk.get_raw_docs(msg, parts), 1))
one_indexed(raw_docs) == enumerate(raw_docs, 1)

\* SoledadMailAdaptor.get_msg_from_string: _split_into_parts(raw_msg), whose
\* payloads the MessageWrapper is made of
get_msg_from_string ==
  LET parsed == _parse_msg(raw_msg)
  IN /\ fdoc' = _build_flags_doc(parsed.chash, parsed.size, parsed.multi)
     /\ hdoc' = _build_headers_doc(parsed, parsed.chash, walk_msg_tree(parsed))
     /\ cdocs' = one_indexed(get_raw_docs(parsed))
     /\ UNCHANGED raw_msg

\* -------------------------------------------------------------- account

VARIABLES
  adaptor,       \* what the class of self.adaptor offers: [has_TYPE_IDX, has_get_or_create]
  mbox_docs,     \* the names of the mailbox documents of the store
  init_chain,    \* where the Deferred d of _initialize_storage stands
  _initialized,  \* self._initialized
  _deferred_initialization,  \* self._deferred_initialization: [called, callbacks]
  __mailboxes,   \* self.__mailboxes
  mbox_pending,  \* the mailboxes whose get_or_create the store has not answered
  cb_runs        \* how often each callback passed to callWhenReady has run

acctVars == <<adaptor, mbox_docs, init_chain, _initialized,
              _deferred_initialization, __mailboxes, mbox_pending, cb_runs>>

\* bound on the callWhenReady calls of one run
MaxReady == 2

INBOX_NAME == "INBOX"

\* a Deferred that has not been called and has no callback
Deferred == [called |-> FALSE, callbacks |-> <<>>]

\* what Account asks of its adaptor class beside initialize_store: that
\* self.indexes has the attribute TYPE_IDX (read by get_all_mboxes) and that the
\* class has the attribute get_or_create (read by add_mailbox)
AdaptorClass(type_idx, goc) == [has_TYPE_IDX |-> type_idx, has_get_or_create |-> goc]

\* Account.adaptor_class as the module sets it: the attribute indexes of
\* SoledadMailAdaptor is the dict MAIL_INDEXES, which has no attribute TYPE_IDX, and
\* the class defines no get_or_create
SoledadMailAdaptor == AdaptorClass(FALSE, FALSE)

\* the adaptor classes of Account and of its subclasses
AdaptorClasses == {AdaptorClass(t, g) : t, g \in BOOLEAN}

\* an account that is constructed with the adaptor class a over a store that holds
\* the mailbox documents named m
AccountOver(a, m) == [adaptor |-> a, mbox_docs |-> m]

NoAccount == AccountOver(SoledadMailAdaptor, {})

\* Deferred.callback: every callback of the Deferred runs, in order
RunCallbacks(runs, callbacks) ==
  [i \in DOMAIN runs |->
     runs[i] + Cardinality({k \in DOMAIN callbacks : callbacks[k] = i})]

\* Account.__init__, which ends in _initialize_storage: initialize_store is called
\* and the three callbacks are chained to its Deferred
Account ==
  /\ init_chain = "none"
  /\ initialize_store
  /\ init_chain' = "initialize_store"
  /\ __mailboxes' = {}
  /\ _initialized' = FALSE
  /\ _deferred_initialization' = Deferred
  /\ UNCHANGED <<adaptor, mbox_docs, mbox_pending, cb_runs>>

\* the first callback of the chain: _load_mailboxes calls adaptor.get_all_mboxes,
\* which reads self.indexes.TYPE_IDX before it queries the store; an AttributeError
\* there fails the chain
load_mbox_cache ==
  /\ init_chain' = IF adaptor.has_TYPE_IDX THEN "load_mbox_cache" ELSE "failed"
  /\ UNCHANGED <<adaptor, mbox_docs, _initialized, _deferred_initialization,
                 __mailboxes, mbox_pending, cb_runs>>

\* what the account does in the step in which the Deferred of initialize_store
\* fires or fails
OnInitializeStore ==
  IF init_chain = "initialize_store" /\ idxCalls'[1].stage = "fired"
  THEN load_mbox_cache
  ELSE IF init_chain = "initialize_store" /\ idxCalls'[1].stage = "failed"
  THEN /\ init_chain' = "failed"
       /\ UNCHANGED <<adaptor, mbox_docs, _initialized, _deferred_initialization,
                      __mailboxes, mbox_pending, cb_runs>>
  ELSE UNCHANGED acctVars

\* Account.add_mailbox: get_or_create is called on the class of the adaptor and its
\* Deferred is returned
add_mailbox(name) == mbox_pending' = mbox_pending \cup {name}

\* the last callback of the chain: the account is flagged and the callbacks of
\* _deferred_initialization run
finish_initialization ==
  /\ _initialized' = TRUE
  /\ _deferred_initialization' = [_deferred_initialization EXCEPT !.called = TRUE]
  /\ cb_runs' = RunCallbacks(cb_runs, _deferred_initialization.callbacks)
  /\ init_chain' = "finished"

\* the store answers the get_from_index of get_all_mboxes: get_names and
\* update_mailboxes run, then add_mailbox_if_none, whose result is None whether it
\* called add_mailbox or not, then finish_initialization; a fault of the store
\* (ok = FALSE) or an AttributeError in add_mailbox fails the chain
StoreGetAllMboxes(ok) ==
  /\ init_chain = "load_mbox_cache"
  /\ IF ~ok
     THEN /\ init_chain' = "failed"
          /\ UNCHANGED <<_initialized, _deferred_initialization, __mailboxes,
                         mbox_pending, cb_runs>>
     ELSE /\ __mailboxes' = __mailboxes \cup mbox_docs
          /\ IF __mailboxes' # {}
             THEN UNCHANGED mbox_pending /\ finish_initialization
             ELSE IF adaptor.has_get_or_create
             THEN add_mailbox(INBOX_NAME) /\ finish_initialization
             ELSE /\ init_chain' = "failed"
                  /\ UNCHANGED <<_initialized, _deferred_initialization,
                                 mbox_pending, cb_runs>>
  /\ UNCHANGED <<adaptor, mbox_docs>>

\* the store answers the get_or_create of a mailbox: its document exists from now on
StoreCreatesMailbox(name) ==
  /\ name \in mbox_pending
  /\ mbox_pending' = mbox_pending \ {name}
  /\ mbox_docs' = mbox_docs \cup {name}
  /\ UNCHANGED <<adaptor, init_chain, _initialized, _deferred_initialization,
                 __mailboxes, cb_runs>>

\* a callWhenReady that calls cb whatever self._initialized is
callWhenReadyAtOnce ==
  /\ init_chain # "none"
  /\ Len(cb_runs) < MaxReady
  /\ cb_runs' = Append(cb_runs, 1)
  /\ UNCHANGED <<adaptor, mbox_docs, init_chain, _initialized,
                 _deferred_initialization, __mailboxes, mbox_pending>>

\* Account.callWhenReady(cb), cb being a callback that was not passed before: it is
\* called at once if self._initialized, and added to _deferred_initialization
\* otherwise (addCallback runs it at once if the Deferred was called)
callWhenReady ==
  /\ init_chain # "none"
  /\ Len(cb_runs) < MaxReady
  /\ IF _initialized \/ _deferred_initialization.called
     THEN /\ cb_runs' = Append(cb_runs, 1)
          /\ UNCHANGED _deferred_initialization
     ELSE /\ cb_runs' = Append(cb_runs, 0)
          /\ _deferred_initialization' =
               [_deferred_initialization EXCEPT
                  !.callbacks = Append(@, Len(cb_runs) + 1)]
  /\ UNCHANGED <<adaptor, mbox_docs, init_chain, _initialized, __mailboxes,
                 mbox_pending>>

\* ------------------------------------------------------- specification

vars == <<docVars, gocVars, uidVars, idxVars, allVars, msgVars, acctVars>>

\* an empty store whose indexes are those of the catalog, and detached wrappers
\* constructed with the attributes `initial`; no call issued yet
InitWith(initial, live, lasts, messages, accounts) ==
  /\ docs = <<>>
  /\ attrs \in [Wrappers -> initial]
  /\ doc_id = [w \in Wrappers |-> 0]
  /\ locked = [w \in Wrappers |-> FALSE]
  /\ waiting = [w \in Wrappers |-> <<>>]
  /\ inflight = {}
  /\ log = [w \in Wrappers |-> <<>>]
  /\ issued = 0
  /\ db_indexes \in live
  /\ klassLocked = FALSE
  /\ klassWaiting = <<>>
  /\ gocInflight = {}
  /\ gocLog = <<>>
  /\ gocIssued = 0
  /\ tables = [m \in Mailboxes |-> NoTable]
  /\ uidGiven = [m \in Mailboxes |-> {}]
  /\ uidPending = {}
  /\ uidReturned = {}
  /\ uidResult = NoResult
  /\ uidIssued = 0
  /\ last_item \in lasts
  /\ idxCalls = <<>>
  /\ idxOps = {}
  /\ idxDone = {}
  /\ idxFailed = {}
  /\ _index_creation_deferreds = {}
  /\ store_ready = FALSE
  /\ get_all_result = NotCalled
  /\ raw_msg \in messages
  /\ fdoc = NoPayload
  /\ hdoc = NoPayload
  /\ cdocs = <<>>
  /\ \E a \in accounts : adaptor = a.adaptor /\ mbox_docs = a.mbox_docs
  /\ init_chain = "none"
  /\ _initialized = FALSE
  /\ _deferred_initialization = Deferred
  /\ __mailboxes = {}
  /\ mbox_pending = {}
  /\ cb_runs = <<>>

\* the life cycle of wrapper instances: create, update, delete
Init == InitWith({DefaultAttrs}, {Catalog}, {"by-name"}, {NoMessage}, {NoAccount})

Next ==
  \/ \E w \in Wrappers :
        /\ attrs[w].counter < MaxCounter
        /\ SetAttr(w, "counter", attrs[w].counter + 1)
        /\ UNCHANGED <<gocVars, uidVars, idxVars, allVars, msgVars, acctVars>>
  \/ \E w \in Wrappers : create(w) /\ UNCHANGED <<gocVars, uidVars, idxVars, allVars, msgVars, acctVars>>
  \/ \E w \in Wrappers : update(w) /\ UNCHANGED <<gocVars, uidVars, idxVars, allVars, msgVars, acctVars>>
  \/ \E w \in Wrappers : delete(w) /\ UNCHANGED <<gocVars, uidVars, idxVars, allVars, msgVars, acctVars>>
  \/ \E r \in inflight : StoreCreateDoc(r) /\ UNCHANGED <<gocVars, uidVars, idxVars, allVars, msgVars, acctVars>>
  \/ \E r \in inflight : StoreGetDoc(r) /\ UNCHANGED <<gocVars, uidVars, idxVars, allVars, msgVars, acctVars>>
  \/ \E r \in inflight : StorePutDoc(r) /\ UNCHANGED <<gocVars, uidVars, idxVars, allVars, msgVars, acctVars>>
  \/ \E r \in inflight : StoreDeleteDoc(r) /\ UNCHANGED <<gocVars, uidVars, idxVars, allVars, msgVars, acctVars>>

Spec == Init /\ [][Next]_vars

\* wrappers of one class, some of them constructed for a document that another
\* wrapper created
NextShared ==
  \/ \E w \in Wrappers :
        /\ attrs[w].counter < MaxCounter
        /\ SetAttr(w, "counter", attrs[w].counter + 1)
        /\ UNCHANGED <<gocVars, uidVars, idxVars, allVars, msgVars, acctVars>>
  \/ \E w \in Wrappers, id \in 1..MaxOps :
        WrapDocument(w, id) /\ UNCHANGED <<gocVars, uidVars, idxVars, allVars, msgVars, acctVars>>
  \/ \E w \in Wrappers : create(w) /\ UNCHANGED <<gocVars, uidVars, idxVars, allVars, msgVars, acctVars>>
  \/ \E w \in Wrappers : update(w) /\ UNCHANGED <<gocVars, uidVars, idxVars, allVars, msgVars, acctVars>>
  \/ \E w \in Wrappers : delete(w) /\ UNCHANGED <<gocVars, uidVars, idxVars, allVars, msgVars, acctVars>>
  \/ \E r \in inflight : StoreCreateDoc(r) /\ UNCHANGED <<gocVars, uidVars, idxVars, allVars, msgVars, acctVars>>
  \/ \E r \in inflight : StoreGetDoc(r) /\ UNCHANGED <<gocVars, uidVars, idxVars, allVars, msgVars, acctVars>>
  \/ \E r \in inflight : StorePutDoc(r) /\ UNCHANGED <<gocVars, uidVars, idxVars, allVars, msgVars, acctVars>>
  \/ \E r \in inflight : StoreDeleteDoc(r) /\ UNCHANGED <<gocVars, uidVars, idxVars, allVars, msgVars, acctVars>>

SpecShared == Init /\ [][NextShared]_vars

\* wrappers constructed for documents that a sync brought into the store, their
\* attributes set and updated
NextMerge ==
  \/ \E w \in Wrappers :
        /\ doc_id[w] # 0
        /\ attrs[w].counter < MaxCounter
        /\ SetAttr(w, "counter", attrs[w].counter + 1)
        /\ UNCHANGED <<gocVars, uidVars, idxVars, allVars, msgVars, acctVars>>
  \/ StoreSyncedDoc /\ UNCHANGED <<gocVars, uidVars, idxVars, allVars, msgVars, acctVars>>
  \/ \E w \in Wrappers, id \in 1..MaxSynced :
        WrapDocument(w, id) /\ UNCHANGED <<gocVars, uidVars, idxVars, allVars, msgVars, acctVars>>
  \/ \E w \in Wrappers :
        doc_id[w] # 0 /\ issued < MaxUpdates /\ update(w) /\ UNCHANGED <<gocVars, uidVars, idxVars, allVars, msgVars, acctVars>>
  \/ \E r \in inflight : StoreGetDoc(r) /\ UNCHANGED <<gocVars, uidVars, idxVars, allVars, msgVars, acctVars>>
  \/ \E r \in inflight : StorePutDoc(r) /\ UNCHANGED <<gocVars, uidVars, idxVars, allVars, msgVars, acctVars>>

SpecMerge == Init /\ [][NextMerge]_vars

\* the values get_or_create is called with, and the attributes given to wrappers
\* that are created directly
Names == {"bob", "harry"}
GocIndexes == {"by-name", "by-type-and-name"}

Types == {"actor", "director"}

\* wrappers constructed with a name and a type: ActorWrapper(name=n, type=t)
InitNamed ==
  InitWith({[DefaultAttrs EXCEPT !.name = n, !.type_ = t] : n \in Names, t \in Types},
           {Catalog}, {"by-name"}, {NoMessage}, {NoAccount})

\* get_or_create calls, next to wrappers created directly with create
NextGoc ==
  \/ \E w \in Wrappers :
        issued + gocIssued < MaxCalls /\ create(w) /\ UNCHANGED <<gocVars, uidVars, idxVars, allVars, msgVars, acctVars>>
  \/ \E r \in inflight : StoreCreateDoc(r) /\ UNCHANGED <<gocVars, uidVars, idxVars, allVars, msgVars, acctVars>>
  \/ \E i \in GocIndexes, v \in Names : get_or_create(i, v) /\ UNCHANGED <<uidVars, idxVars, allVars, msgVars, acctVars>>
  \/ \E c \in gocInflight : GocListIndexes(c) /\ UNCHANGED <<uidVars, idxVars, allVars, msgVars, acctVars>>
  \/ \E c \in gocInflight : GocGetFromIndex(c) /\ UNCHANGED <<uidVars, idxVars, allVars, msgVars, acctVars>>
  \/ \E c \in gocInflight : GocListIndexesAgain(c) /\ UNCHANGED <<uidVars, idxVars, allVars, msgVars, acctVars>>
  \/ \E c \in gocInflight : GocCreateDoc(c) /\ UNCHANGED <<uidVars, idxVars, allVars, msgVars, acctVars>>

SpecGoc == InitNamed /\ [][NextGoc]_vars

\* the store answers a request of a wrapper call or of a get_or_create call
StoreAnswers ==
  \/ \E r \in inflight : StoreCreateDoc(r) /\ UNCHANGED <<gocVars, uidVars, idxVars, allVars, msgVars, acctVars>>
  \/ \E r \in inflight : StoreGetDoc(r) /\ UNCHANGED <<gocVars, uidVars, idxVars, allVars, msgVars, acctVars>>
  \/ \E r \in inflight : StorePutDoc(r) /\ UNCHANGED <<gocVars, uidVars, idxVars, allVars, msgVars, acctVars>>
  \/ \E r \in inflight : StoreDeleteDoc(r) /\ UNCHANGED <<gocVars, uidVars, idxVars, allVars, msgVars, acctVars>>
  \/ \E c \in gocInflight : GocListIndexes(c) /\ UNCHANGED <<uidVars, idxVars, allVars, msgVars, acctVars>>
  \/ \E c \in gocInflight : GocGetFromIndex(c) /\ UNCHANGED <<uidVars, idxVars, allVars, msgVars, acctVars>>
  \/ \E c \in gocInflight : GocListIndexesAgain(c) /\ UNCHANGED <<uidVars, idxVars, allVars, msgVars, acctVars>>
  \/ \E c \in gocInflight : GocCreateDoc(c) /\ UNCHANGED <<uidVars, idxVars, allVars, msgVars, acctVars>>

\* a store in which an index of the catalog may be missing, and wrappers of one
\* name
InitLocks ==
  InitWith({[DefaultAttrs EXCEPT !.name = "bob"]},
           {Catalog, [Catalog EXCEPT !["by-type-and-name"] = <<>>]},
           {"by-name"}, {NoMessage}, {NoAccount})

\* calls that take the instance lock or the class lock, some of which fail
NextLocks ==
  \/ \E w \in Wrappers :
        issued + gocIssued < MaxCalls /\ create(w)
        /\ UNCHANGED <<gocVars, uidVars, idxVars, allVars, msgVars, acctVars>>
  \/ \E w \in Wrappers :
        issued + gocIssued < MaxCalls /\ update(w)
        /\ UNCHANGED <<gocVars, uidVars, idxVars, allVars, msgVars, acctVars>>
  \/ \E w \in Wrappers :
        issued + gocIssued < MaxCalls /\ delete(w)
        /\ UNCHANGED <<gocVars, uidVars, idxVars, allVars, msgVars, acctVars>>
  \/ \E i \in GocIndexes, v \in Names :
        get_or_create(i, v) /\ UNCHANGED <<uidVars, idxVars, allVars, msgVars, acctVars>>
  \/ StoreAnswers

\* the store answers every request
SpecLocks == InitLocks /\ [][NextLocks]_vars /\ WF_vars(StoreAnswers)

\* get_or_create calls and calls of get_all, with the store or without argument
NextAll ==
  \/ NextGoc
  \/ \E nargs \in {0, 1} : get_all(nargs) /\ UNCHANGED <<uidVars, idxVars, msgVars, acctVars>>

SpecAll == InitNamed /\ [][NextAll]_vars

\* the mailbox UID tables of a fresh store
InitUid == InitWith({DefaultAttrs}, {Catalog}, {"by-name"}, {NoMessage}, {NoAccount})

NextUid ==
  \/ \E m \in Mailboxes : create_table(m) /\ UNCHANGED <<docVars, gocVars, idxVars, allVars, msgVars, acctVars>>
  \/ \E m \in Mailboxes : delete_table(m) /\ UNCHANGED <<docVars, gocVars, idxVars, allVars, msgVars, acctVars>>
  \/ \E m, n \in Mailboxes : rename_table(m, n) /\ UNCHANGED <<docVars, gocVars, idxVars, allVars, msgVars, acctVars>>
  \/ \E m \in Mailboxes, h \in Hashes : insert_doc(m, h) /\ UNCHANGED <<docVars, gocVars, idxVars, allVars, msgVars, acctVars>>
  \/ \E p \in uidPending : InsertDocSelectMax(p) /\ UNCHANGED <<docVars, gocVars, idxVars, allVars, msgVars, acctVars>>
  \/ \E m \in Mailboxes, u \in 1..MaxInserts :
        delete_doc_by_uid(m, u) /\ UNCHANGED <<docVars, gocVars, idxVars, allVars, msgVars, acctVars>>
  \/ \E m \in Mailboxes, h \in Hashes :
        delete_doc_by_hash(m, h) /\ UNCHANGED <<docVars, gocVars, idxVars, allVars, msgVars, acctVars>>
  \/ \E m \in Mailboxes, u \in 1..MaxInserts :
        get_doc_from_uid(m, u) /\ UNCHANGED <<docVars, gocVars, idxVars, allVars, msgVars, acctVars>>
  \/ \E m \in Mailboxes : count(m) /\ UNCHANGED <<docVars, gocVars, idxVars, allVars, msgVars, acctVars>>

SpecUid == InitUid /\ [][NextUid]_vars

\* the calls of the tests: each is made in the callback of the one before it, so
\* no call is made while an insert_doc has its second query pending
NextUidSeq ==
  \/ \E m \in Mailboxes :
        uidPending = {} /\ create_table(m) /\ UNCHANGED <<docVars, gocVars, idxVars, allVars, msgVars, acctVars>>
  \/ \E m \in Mailboxes :
        uidPending = {} /\ delete_table(m) /\ UNCHANGED <<docVars, gocVars, idxVars, allVars, msgVars, acctVars>>
  \/ \E m, n \in Mailboxes :
        uidPending = {} /\ rename_table(m, n) /\ UNCHANGED <<docVars, gocVars, idxVars, allVars, msgVars, acctVars>>
  \/ \E m \in Mailboxes, h \in Hashes :
        uidPending = {} /\ insert_doc(m, h) /\ UNCHANGED <<docVars, gocVars, idxVars, allVars, msgVars, acctVars>>
  \/ \E p \in uidPending : InsertDocSelectMax(p) /\ UNCHANGED <<docVars, gocVars, idxVars, allVars, msgVars, acctVars>>
  \/ \E m \in Mailboxes, u \in 1..MaxInserts :
        uidPending = {} /\ delete_doc_by_uid(m, u) /\ UNCHANGED <<docVars, gocVars, idxVars, allVars, msgVars, acctVars>>
  \/ \E m \in Mailboxes, h \in Hashes :
        uidPending = {} /\ delete_doc_by_hash(m, h) /\ UNCHANGED <<docVars, gocVars, idxVars, allVars, msgVars, acctVars>>
  \/ \E m \in Mailboxes, u \in 1..MaxInserts :
        uidPending = {} /\ get_doc_from_uid(m, u) /\ UNCHANGED <<docVars, gocVars, idxVars, allVars, msgVars, acctVars>>
  \/ \E m \in Mailboxes : uidPending = {} /\ count(m) /\ UNCHANGED <<docVars, gocVars, idxVars, allVars, msgVars, acctVars>>

SpecUidSeq == InitUid /\ [][NextUidSeq]_vars

\* initialize_store on a store whose indexes are in any state
InitIdx == InitWith({DefaultAttrs}, LiveIndexes, IndexNames, {NoMessage}, {NoAccount})

NextIdx ==
  \/ initialize_store /\ UNCHANGED <<docVars, klassVars, uidVars, allVars, msgVars, acctVars>>
  \/ \E c \in DOMAIN idxCalls : _create_indexes(c) /\ UNCHANGED <<docVars, klassVars, uidVars, allVars, msgVars, acctVars>>
  \/ \E o \in idxOps, ok \in BOOLEAN :
        StoreCreateIndex(o, ok) /\ UNCHANGED <<docVars, klassVars, uidVars, allVars, msgVars, acctVars>>
  \/ \E o \in idxOps, ok \in BOOLEAN :
        StoreDeleteIndex(o, ok) /\ UNCHANGED <<docVars, klassVars, uidVars, allVars, msgVars, acctVars>>

SpecIdx == InitIdx /\ [][NextIdx]_vars

\* a store that has, beside the indexes of LiveIndexes, a live index that the
\* catalog does not name
LiveAndForeignIndexes == {l @@ ("by-legacy" :> <<"legacy">>) : l \in LiveIndexes}

InitIdxForeign == InitWith({DefaultAttrs}, LiveAndForeignIndexes, IndexNames, {NoMessage}, {NoAccount})

SpecIdxForeign == InitIdxForeign /\ [][NextIdx]_vars

\* an account constructed over a store with or without the INBOX document, whose
\* indexes are any of LiveIndexes, with any of the adaptor classes
InitAccount ==
  InitWith({DefaultAttrs}, LiveIndexes, IndexNames, {NoMessage},
           {AccountOver(a, m) : a \in AdaptorClasses, m \in {{}, {INBOX_NAME}}})

NextAccount ==
  \/ Account /\ UNCHANGED <<docVars, klassVars, uidVars, allVars, msgVars>>
  \/ \E c \in DOMAIN idxCalls :
        _create_indexes(c) /\ OnInitializeStore /\ UNCHANGED <<docVars, klassVars, uidVars, allVars, msgVars>>
  \/ \E o \in idxOps, ok \in BOOLEAN :
        StoreCreateIndex(o, ok) /\ OnInitializeStore /\ UNCHANGED <<docVars, klassVars, uidVars, allVars, msgVars>>
  \/ \E o \in idxOps, ok \in BOOLEAN :
        StoreDeleteIndex(o, ok) /\ OnInitializeStore /\ UNCHANGED <<docVars, klassVars, uidVars, allVars, msgVars>>
  \/ \E ok \in BOOLEAN :
        StoreGetAllMboxes(ok) /\ UNCHANGED <<docVars, gocVars, uidVars, idxVars, allVars, msgVars>>
  \/ \E n \in mbox_pending :
        StoreCreatesMailbox(n) /\ UNCHANGED <<docVars, gocVars, uidVars, idxVars, allVars, msgVars>>
  \/ callWhenReady /\ UNCHANGED <<docVars, gocVars, uidVars, idxVars, allVars, msgVars>>

SpecAccount == InitAccount /\ [][NextAccount]_vars

\* the decomposition of one message, drawn from the messages of the model
InitMsg == InitWith({DefaultAttrs}, {Catalog}, {"by-name"}, Messages, {NoAccount})

NextMsg == get_msg_from_string /\ UNCHANGED <<docVars, gocVars, uidVars, idxVars, allVars, acctVars>>

SpecMsg == InitMsg /\ [][NextMsg]_vars


\* --------------------------------------------- claims: document wrapper

\* the entries a step adds to the log of w
NewEntries(w) == {log'[w][i] : i \in DOMAIN log'[w] \ DOMAIN log[w]}

LockedKinds == {"update", "delete"}

\* the completed update and delete calls of w, in completion order
LockedLog(w) == SelectSeq(log[w], LAMBDA e : e.kind \in LockedKinds)

\* the successful updates of w on document d, in completion order
OkUpdates(w, d) ==
  SelectSeq(log[w], LAMBDA e : e.kind = "update" /\ e.res = "ok" /\ e.did = d)

\* C5: the updates and deletes issued on one wrapper instance run one at a time and
\* in issue order: at most one of them has a store request pending, it was issued
\* before every call still waiting and after every call that has completed, the
\* completed ones are in issue order, none ended in a revision conflict, and
\* successive updates of a document return successive revisions.
C5_InstanceCallsAreSerial ==
  \A w \in Wrappers :
    LET running == {r \in inflight : r.w = w /\ r.kind \in LockedKinds}
        done == LockedLog(w)
    IN /\ Cardinality(running) <= 1
       /\ \A r \in running :
            /\ \A i \in 1..Len(waiting[w]) : r.id < waiting[w][i].id
            /\ \A i \in 1..Len(done) : done[i].id < r.id
       /\ \A i, j \in 1..Len(done) : i < j => done[i].id < done[j].id
       /\ \A i \in 1..Len(done) : done[i].res # "RevisionConflict"
       /\ \A d \in 1..Len(docs) :
            LET ups == OkUpdates(w, d)
            IN \A k \in 1..Len(ups) :
                 ups[k].rev = IF k = 1 THEN 2 ELSE ups[k - 1].rev + 1

\* C5 witness: a wrapper has completed two updates of one document, the second of
\* which was issued while the first held the lock.
C5_Witness ==
  \E w \in Wrappers, d \in 1..Len(docs) :
    LET ups == OkUpdates(w, d)
    IN Len(ups) >= 2 /\ ups[2].queued /\ ups[2].rev = 3

\* no call of w is waiting or has a store request pending
Settled(w) == waiting[w] = <<>> /\ ~\E r \in inflight : r.w = w

\* the updates w has completed, in completion order
Updates(w) == SelectSeq(log[w], LAMBDA e : e.kind = "update")

\* every update of w was issued on an attached wrapper and no delete was issued
UpdatesOnly(w) ==
  /\ Updates(w) # <<>>
  /\ \A i \in 1..Len(log[w]) :
       /\ log[w][i].kind # "delete"
       /\ log[w][i].kind = "update" => log[w][i].life = "attached"

LastUpdate(w) == Updates(w)[Len(Updates(w))]

\* C6 as stated: once every update issued on a wrapper has completed, the stored
\* document's fields are the wrapper's fields as they were when the last update
\* was issued.
C6_StoredIsFieldsAtIssue ==
  \A w \in Wrappers :
    Settled(w) /\ UpdatesOnly(w) =>
      docs[LastUpdate(w).did].content = LastUpdate(w).snap

\* C6 amended: once every update issued on a wrapper has completed, the last
\* update issued has succeeded and the stored document's fields are the wrapper's
\* fields as they were when that update wrote the document back, that is when its
\* get_doc returned, not when update was called.
C6_StoredIsFieldsAtWriteBack ==
  \A w \in Wrappers :
    Settled(w) /\ UpdatesOnly(w) =>
      /\ LastUpdate(w).res = "ok"
      /\ \A i \in 1..Len(Updates(w)) : Updates(w)[i].id <= LastUpdate(w).id
      /\ docs[LastUpdate(w).did].content = LastUpdate(w).put

\* C6 witness: two updates have completed on a settled wrapper and the last one
\* wrote fields that differ from the ones the wrapper had when it was issued.
C6_Witness ==
  \E w \in Wrappers :
    /\ Settled(w) /\ UpdatesOnly(w)
    /\ Len(Updates(w)) >= 2
    /\ LastUpdate(w).put # LastUpdate(w).snap
    /\ docs[LastUpdate(w).did].content.counter = 1

\* C7: an update or delete issued on a wrapper whose delete has completed fails
\* with the usage error (the assertion) and issues no store request.
C7_DeletedWrapperRejectsCalls ==
  \A w \in Wrappers :
    /\ \A i \in 1..Len(log[w]) :
         log[w][i].kind \in LockedKinds /\ log[w][i].life = "deleted" =>
           log[w][i].res = "AssertionError" /\ log[w][i].nops = 0
    /\ \A r \in inflight :
         r.w = w /\ r.kind \in LockedKinds => r.life # "deleted"

\* C8: an update or delete issued on a wrapper that has no document identifier
\* fails at once with the assertion and issues no store request.
C8_DetachedWrapperRejectsCalls ==
  \A w \in Wrappers :
    /\ \A i \in 1..Len(log[w]) :
         log[w][i].kind \in LockedKinds /\ log[w][i].life = "detached" =>
           log[w][i].res = "AssertionError" /\ log[w][i].nops = 0
    /\ \A r \in inflight :
         r.w = w /\ r.kind \in LockedKinds => r.life # "detached"
    /\ \A i \in 1..Len(waiting[w]) : waiting[w][i].life # "detached"

\* C8 witness: an update and a delete were each issued on a detached wrapper and
\* have failed.
C8_Witness ==
  \E w \in Wrappers :
    /\ \E i \in 1..Len(log[w]) :
         /\ log[w][i].kind = "update" /\ log[w][i].life = "detached"
         /\ log[w][i].res = "AssertionError"
    /\ \E i \in 1..Len(log[w]) :
         /\ log[w][i].kind = "delete" /\ log[w][i].life = "detached"
         /\ log[w][i].res = "AssertionError"

\* the create calls that completed successfully, over all wrappers
OkCreates ==
  UNION {{<<w, i>> : i \in {j \in 1..Len(log[w]) :
                             log[w][j].kind = "create" /\ log[w][j].res = "ok"}} :
         w \in Wrappers}

\* C9: a create issued on a wrapper that has a document identifier fails with the
\* assertion and issues no create_doc: every document of the store comes from a
\* create issued on a wrapper without identifier.
C9_AttachedWrapperRejectsCreate ==
  /\ \A w \in Wrappers :
       /\ \A i \in 1..Len(log[w]) :
            log[w][i].kind = "create" /\ log[w][i].life # "detached" =>
              log[w][i].res = "AssertionError" /\ log[w][i].nops = 0
       /\ \A r \in inflight : r.w = w /\ r.kind = "create" => r.life = "detached"
  /\ Len(docs) = Cardinality(OkCreates)

\* C9 witness: a create was issued on an attached wrapper and has failed, the
\* store holding the one document of the first create.
C9_Witness ==
  \E w \in Wrappers :
    /\ doc_id[w] # 0
    /\ Len(docs) = 1
    /\ \E i \in 1..Len(log[w]) :
         /\ log[w][i].kind = "create" /\ log[w][i].life = "attached"
         /\ log[w][i].res = "AssertionError"

\* ------------------------------------------------ claims: get_or_create

\* the live documents a get_or_create(index, value) query matches
KeyDocs(index, value) ==
  get_from_index(index, try_to_get_doc_from_index(db_indexes[index], value))

\* the completed get_or_create calls for one index and value
CallsDone(index, value) ==
  {k \in 1..Len(gocLog) : gocLog[k].index = index /\ gocLog[k].value = value}

CallsPending(index, value) ==
  \/ \E c \in gocInflight : c.index = index /\ c.value = value
  \/ \E k \in 1..Len(klassWaiting) :
       klassWaiting[k].index = index /\ klassWaiting[k].value = value

\* the documents created by get_or_create calls
GocCreated == {gocLog[k].new_id : k \in {j \in 1..Len(gocLog) : gocLog[j].created}}

\* C1: for one index and value, the get_or_create calls create at most one document
\* in total, however they overlap; and when no matching document was created
\* outside get_or_create, the store holds exactly one matching document once all of
\* them have completed.
C1_GetOrCreateCreatesOnce ==
  \A index \in GocIndexes, value \in Names :
    /\ Cardinality({k \in CallsDone(index, value) : gocLog[k].created}) <= 1
    /\ ( /\ CallsDone(index, value) # {}
         /\ ~CallsPending(index, value)
         /\ KeyDocs(index, value) \subseteq GocCreated )
       => Cardinality(KeyDocs(index, value)) = 1

\* C1 witness: three calls for one index and value have completed, two of which
\* were issued while another held the class lock; one document matches.
C1_Witness ==
  \E index \in GocIndexes, value \in Names :
    /\ Cardinality(CallsDone(index, value)) >= 3
    /\ Cardinality({k \in CallsDone(index, value) : gocLog[k].queued}) >= 2
    /\ Cardinality({k \in CallsDone(index, value) : gocLog[k].created}) = 1
    /\ Cardinality(KeyDocs(index, value)) = 1

\* C10: a get_or_create whose index query returned more than one document fails
\* with DuplicatedDocumentError, returns no wrapper and creates nothing, while one
\* whose query returned no document creates one and returns its wrapper; the
\* store's documents are exactly those of the successful creates.
C10_DuplicatesAreAnError ==
  /\ \A k \in 1..Len(gocLog) :
       /\ gocLog[k].matched > 1 =>
            gocLog[k].res = "DuplicatedDocumentError" /\ ~gocLog[k].created
       /\ gocLog[k].matched = 0 =>
            gocLog[k].res = "wrapper" /\ gocLog[k].created
  /\ \A c \in gocInflight : c.matched = 0
  /\ Len(docs) = Cardinality(OkCreates) + Cardinality(GocCreated)

\* C10 witness: a call has found two documents for its value and failed; the store
\* still holds just those two.
C10_Witness ==
  \E k \in 1..Len(gocLog) :
    /\ gocLog[k].matched = 2
    /\ gocLog[k].res = "DuplicatedDocumentError"
    /\ Len(docs) = 2

\* C11: a get_or_create whose index query returns exactly one document completes in
\* that step without changing the store's documents, and the wrapper it returns
\* has the fields of that document's content.
C11_SingleMatchIsWrapped ==
  [][\A k \in DOMAIN gocLog' \ DOMAIN gocLog :
       gocLog'[k].matched = 1 =>
         /\ docs' = docs
         /\ gocLog'[k].res = "wrapper"
         /\ ~gocLog'[k].created
         /\ \E id \in KeyDocs(gocLog'[k].index, gocLog'[k].value) :
              Serialize(gocLog'[k].attrs) = docs[id].content]_vars

\* C11 witness: a call by name has found the single document of that name, a
\* director created directly, and returned a wrapper of type director; the store
\* still holds that one document.
C11_Witness ==
  \E k \in 1..Len(gocLog) :
    /\ gocLog[k].matched = 1
    /\ gocLog[k].res = "wrapper"
    /\ gocLog[k].attrs.type_ = "director"
    /\ ~gocLog[k].created
    /\ Len(docs) = 1

\* the values of the completed get_or_create calls on one index
ValuesDone(index) == {gocLog[k].value : k \in {j \in 1..Len(gocLog) : gocLog[j].index = index}}

\* no call is pending: none holds a store request, none waits for the class lock
GocQuiet == gocInflight = {} /\ klassWaiting = <<>>

\* C12: on a store that was empty and is written by get_or_create calls on one index
\* only, once the calls have completed the store holds exactly one document per
\* distinct value they were called with.
C12_OneDocumentPerValue ==
  \A index \in GocIndexes :
    ( /\ issued = 0
      /\ GocQuiet
      /\ \A k \in 1..Len(gocLog) : gocLog[k].index = index )
    => Len(docs) = Cardinality(ValuesDone(index))

\* C12 witness: three calls on one index have completed, for two distinct values,
\* and the store holds two documents.
C12_Witness ==
  \E index \in GocIndexes :
    /\ issued = 0
    /\ GocQuiet
    /\ Len(gocLog) = 3
    /\ \A k \in 1..Len(gocLog) : gocLog[k].index = index
    /\ Cardinality(ValuesDone(index)) = 2
    /\ Len(docs) = 2

\* the live documents that have the value in the primary field and the class
\* default in the type field
ExactDocs(value) ==
  {id \in 1..Len(docs) :
     /\ ~docs[id].deleted
     /\ docs[id].content.name = value
     /\ docs[id].content.type = DefaultAttrs.type_}

\* C13: when the store answers the query of a get_or_create on the index by type
\* and name, the documents found are those with the value as name and the default
\* type, whatever other documents have that name: with none the call goes on to
\* create one, with exactly one the call returns a wrapper of that document and
\* the store's documents are unchanged.
C13_MultiFieldQueryUsesDefaults ==
  [][\A c \in gocInflight \ gocInflight' :
       (c.stage = "get_from_index" /\ c.index = "by-type-and-name") =>
         /\ c.values = <<DefaultAttrs.type_, c.value>>
         /\ ExactDocs(c.value) = {} =>
              \E c2 \in gocInflight' : c2.id = c.id /\ c2.stage = "list_indexes_again"
         /\ Cardinality(ExactDocs(c.value)) = 1 =>
              /\ docs' = docs
              /\ Len(gocLog') = Len(gocLog) + 1
              /\ gocLog'[Len(gocLog')].id = c.id
              /\ gocLog'[Len(gocLog')].res = "wrapper"
              /\ gocLog'[Len(gocLog')].matched = 1
              /\ \A id \in ExactDocs(c.value) :
                   Serialize(gocLog'[Len(gocLog')].attrs) = docs[id].content]_vars

\* C13 witness: the store holds an actor created by get_or_create and a director
\* of the same name created directly, and a later get_or_create for that name has
\* found the actor alone and created nothing.
C13_Witness ==
  \E j, k \in 1..Len(gocLog) :
    /\ j < k
    /\ gocLog[j].index = "by-type-and-name" /\ gocLog[k].index = "by-type-and-name"
    /\ gocLog[j].value = gocLog[k].value
    /\ gocLog[j].created
    /\ gocLog[k].matched = 1 /\ ~gocLog[k].created /\ gocLog[k].attrs.type_ = "actor"
    /\ Len(docs) = 2
    /\ \E id \in 1..Len(docs) :
         docs[id].content.name = gocLog[k].value /\ docs[id].content.type = "director"

\* the create calls issued on w so far
CreateCalls(w) ==
  Cardinality({i \in 1..Len(log[w]) : log[w][i].kind = "create"})
  + Cardinality({r \in inflight : r.w = w /\ r.kind = "create"})

\* the wrappers whose create has completed
Created == {w \in Wrappers : \E i \in 1..Len(log[w]) :
                                log[w][i].kind = "create" /\ log[w][i].res = "ok"}

\* C15: the create_doc of a create issued on a detached wrapper adds one document
\* to the store, holding the fields the wrapper had when create was called, changes
\* no other document and sets the wrapper's identifier to the new document's; when
\* no wrapper was created twice, the store holds one document per completed create
\* and the wrappers created have distinct identifiers.
C15_CreateAddsOneDocument ==
  /\ [][\A r \in inflight \ inflight' :
          (r.kind = "create" /\ r.life = "detached") =>
            /\ Len(docs') = Len(docs) + 1
            /\ \A id \in 1..Len(docs) : docs'[id] = docs[id]
            /\ docs'[Len(docs')].content = r.snap
            /\ doc_id'[r.w] = Len(docs')
            /\ \E e \in NewEntries(r.w) : e.id = r.id /\ e.res = "ok"]_vars
  /\ []((\A w \in Wrappers : CreateCalls(w) <= 1) =>
          /\ Len(docs) = Cardinality(Created)
          /\ \A w \in Created : doc_id[w] \in 1..Len(docs)
          /\ \A w, v \in Created : w # v => doc_id[w] # doc_id[v])

\* C15 witness: two wrappers were created once each, the creates overlapping (the
\* one issued first got its document second), and the store holds two documents.
C15_Witness ==
  /\ Created = Wrappers
  /\ \A w \in Wrappers : CreateCalls(w) = 1
  /\ Len(docs) = 2
  /\ \E w, v \in Wrappers :
       /\ log[w][1].id < log[v][1].id
       /\ doc_id[w] > doc_id[v]

\* C16: once a delete issued on an attached wrapper has completed, the document
\* the wrapper pointed at is not among the store's documents any more; the
\* delete_doc of such a call removes that document and leaves every other
\* document as it was.
C16_DeleteRemovesTheDocument ==
  /\ [](\A w \in Wrappers : \A i \in 1..Len(log[w]) :
          (log[w][i].kind = "delete" /\ log[w][i].life = "attached") =>
            /\ log[w][i].res = "ok"
            /\ docs[log[w][i].did].deleted
            /\ ~get_doc(log[w][i].did).found)
  /\ [][\A r \in inflight \ inflight' :
          (r.kind = "delete" /\ r.life = "attached" /\ r.stage = "delete_doc") =>
            /\ docs'[r.did].deleted
            /\ Len(docs') = Len(docs)
            /\ \A id \in 1..Len(docs) : id # r.did => docs'[id] = docs[id]]_vars

\* C16 witness: of two documents created, one was deleted through its wrapper and
\* the other is still in the store.
C16_Witness ==
  \E w, v \in Wrappers :
    /\ w # v
    /\ doc_id[w] # 0 /\ doc_id[v] # 0 /\ doc_id[w] # doc_id[v]
    /\ \E i \in 1..Len(log[w]) :
         log[w][i].kind = "delete" /\ log[w][i].life = "attached" /\ log[w][i].res = "ok"
    /\ docs[doc_id[w]].deleted
    /\ ~docs[doc_id[v]].deleted

\* ------------------------------------- claims: wrappers sharing a document

\* C14: when the store executes the put_doc of an update whose document was read
\* at a revision that another wrapper's write has since replaced, the store's
\* documents stay as they are and the update's caller gets RevisionConflict; an
\* update reports success only for a put_doc that replaced the content by its own.
C14_ConflictReachesCaller ==
  [][\A r \in inflight \ inflight' :
       (r.kind = "update" /\ r.stage = "put_doc") =>
         IF docs[r.did].rev # r.doc.rev
         THEN /\ docs' = docs
              /\ \E e \in NewEntries(r.w) : e.id = r.id /\ e.res = "RevisionConflict"
         ELSE /\ docs'[r.did].content = r.put
              /\ docs'[r.did].rev = docs[r.did].rev + 1
              /\ \E e \in NewEntries(r.w) : e.id = r.id /\ e.res = "ok"]_vars

\* C14 witness: two wrappers point at one document and have each completed an
\* update of it with different fields; one succeeded, the other got
\* RevisionConflict, and the document holds the fields of the one that succeeded.
C14_Witness ==
  \E w, v \in Wrappers :
    /\ w # v
    /\ doc_id[w] # 0 /\ doc_id[w] = doc_id[v]
    /\ \E i \in 1..Len(log[w]), j \in 1..Len(log[v]) :
         /\ log[w][i].kind = "update" /\ log[w][i].res = "ok"
         /\ log[v][j].kind = "update" /\ log[v][j].res = "RevisionConflict"
         /\ log[w][i].put # log[v][j].put
         /\ docs[doc_id[w]].content = log[w][i].put
         /\ docs[doc_id[w]].rev = 2

\* ------------------------------------------------ claims: mailbox UID table

\* C2: within one mailbox table every uid given by insert_doc is greater than every
\* uid the table gave before, deleted rows included: no uid is given twice.
C2_UidsNeverReused ==
  [][\A m \in Mailboxes :
       tables[m].exists =>
         \A r \in tables'[m].rows \ tables[m].rows :
           \A u \in uidGiven[m] : u < r[1]]_vars

\* C21: with calls made one after the other, every insert_doc that succeeded has
\* returned the uid of the row it inserted; the INSERT adds the one row of that
\* uid and the given hash, and in a table that lost no row the uids are 1, 2, ...
\* in the order of the inserts.
C21_InsertReturnsItsUid ==
  /\ [](\A r \in uidReturned : r.err = "" /\ r.ret = r.uid)
  /\ [](\A m \in Mailboxes :
          Cardinality(tables[m].rows) = Cardinality(uidGiven[m]) =>
            Uids(tables[m].rows) = 1..Cardinality(tables[m].rows))
  /\ [][\A p \in uidPending' \ uidPending :
          /\ tables'[p.mbox].rows = tables[p.mbox].rows \cup {<<p.uid, p.hash>>}
          /\ <<p.uid, p.hash>> \notin tables[p.mbox].rows
          /\ \A u \in Uids(tables[p.mbox].rows) : u < p.uid]_vars

\* C21 witness: two inserts on a fresh table have returned 1 and 2, in that order
\* of hashes, and the table holds the rows (1, h0) and (2, h1).
C21_Witness ==
  \E m \in Mailboxes :
    /\ tables[m].rows = {<<1, "h0">>, <<2, "h1">>}
    /\ uidPending = {}
    /\ uidReturned = {[mbox |-> m, hash |-> "h0", uid |-> 1, err |-> "", ret |-> 1],
                      [mbox |-> m, hash |-> "h1", uid |-> 2, err |-> "", ret |-> 2]}

\* C22: the insert_doc calls on one mailbox that inserted different rows have
\* returned different uids, each its own row's, also when they were in flight at
\* the same time.
C22_ConcurrentInsertsReturnOwnUid ==
  \A r, q \in uidReturned :
    (r.mbox = q.mbox /\ r.err = "" /\ q.err = "" /\ r.uid # q.uid) =>
      /\ r.ret # q.ret
      /\ r.ret = r.uid

\* the rows of mailbox m that a step removed; no step changes a row in place
Removed(m) == tables[m].rows \ tables'[m].rows

\* what a delete on the existing table m that names the rows `keyed` has to do
DeletesOnly(m, keyed) ==
  /\ tables'[m].exists
  /\ tables'[m].rows = tables[m].rows \ keyed
  /\ Cardinality(Removed(m)) = (IF keyed = {} THEN 0 ELSE 1)
  /\ \A n \in Mailboxes \ {m} : tables'[n] = tables[n]
  /\ uidResult'.err = ""

\* C23: on an existing table delete_doc_by_uid and delete_doc_by_hash remove the
\* one row of that uid, respectively of that hash, and no other row of any
\* table; when no row has the key nothing is removed and the call succeeds.
C23_DeleteRemovesOneRow ==
  [][/\ \A m \in Mailboxes, u \in 1..MaxInserts :
          (tables[m].exists /\ delete_doc_by_uid(m, u)) =>
            DeletesOnly(m, {r \in tables[m].rows : r[1] = u})
     /\ \A m \in Mailboxes, h \in Hashes :
          (tables[m].exists /\ delete_doc_by_hash(m, h)) =>
            DeletesOnly(m, {r \in tables[m].rows : r[2] = h})]_vars

\* C23 witness: of the two rows inserted into a table a delete by uid has removed
\* the first and left the second.
C23_Witness ==
  \E m \in Mailboxes :
    /\ uidGiven[m] = {1, 2}
    /\ tables[m].rows = {<<2, "h1">>}
    /\ uidResult = Result("delete_doc_by_uid", "", 0, "")

\* C24: on an existing table get_doc_from_uid succeeds: it returns the hash of the
\* row of that uid, and when no row has that uid (it was never given, or the row
\* was deleted) it returns a value that is no hash and means not found.
C24_AbsentUidIsNotFound ==
  [][\A m \in Mailboxes, u \in 1..MaxInserts :
       (tables[m].exists /\ get_doc_from_uid(m, u)) =>
         /\ uidResult'.err = ""
         /\ \A r \in tables[m].rows : r[1] = u => uidResult'.hash = r[2]
         /\ u \notin Uids(tables[m].rows) => uidResult'.hash \notin Hashes]_vars

\* C25: count on an existing table succeeds and returns the number of rows the
\* table holds then: the rows inserted less the rows removed.
C25_CountIsCurrentRows ==
  [][\A m \in Mailboxes :
       (tables[m].exists /\ count(m)) =>
         /\ uidResult'.err = ""
         /\ uidResult'.num = Cardinality(tables[m].rows)
         /\ uidResult'.num =
              Cardinality(uidGiven[m]) - Cardinality(uidGiven[m] \ Uids(tables[m].rows))]_vars

\* C25 witness: count has returned 1 on a table that was given two rows and lost
\* one of them.
C25_Witness ==
  \E m \in Mailboxes :
    /\ Cardinality(uidGiven[m]) = 2
    /\ Cardinality(tables[m].rows) = 1
    /\ uidResult = Result("count", "", 1, "")

\* C26: create_table succeeds and leaves a table for the mailbox; on a mailbox
\* that has a table it changes no table, so the rows and their uids stay.
\* delete_table succeeds and leaves no table for the mailbox, whether there was
\* one (created just before or not) or none; it changes no other table.
C26_CreateAndDeleteTableAreIdempotent ==
  [][\A m \in Mailboxes :
       /\ create_table(m) =>
            /\ uidResult'.err = ""
            /\ tables'[m].exists
            /\ tables[m].exists => (tables' = tables /\ uidGiven' = uidGiven)
            /\ ~tables[m].exists => tables'[m].rows = {}
            /\ \A n \in Mailboxes \ {m} : tables'[n] = tables[n]
       /\ delete_table(m) =>
            /\ uidResult'.err = ""
            /\ ~tables'[m].exists
            /\ ~tables[m].exists => tables' = tables
            /\ \A n \in Mailboxes \ {m} : tables'[n] = tables[n]]_vars

\* C26 witness: create_table has been called again on a table after an insert_doc
\* returned, and the table holds the row.
C26_Witness ==
  \E m \in Mailboxes :
    /\ uidPending = {}
    /\ uidReturned # {}
    /\ tables[m].rows = {<<1, "h0">>}
    /\ uidGiven[m] = {1}
    /\ uidResult = Result("create_table", "", 0, "")

\* the table of mailbox old has moved to mailbox new in the step
Moved(old, new) ==
  /\ uidResult'.err = ""
  /\ ~tables'[old].exists
  /\ tables'[new] = tables[old]
  /\ \A n \in Mailboxes \ {old, new} : tables'[n] = tables[n]

\* the call has failed and no table has changed
FailedUnchanged ==
  /\ uidResult'.err # ""
  /\ tables' = tables

\* C27 as stated: rename_table(old, new) with old # new moves the table of old,
\* rows and all, to new and leaves none under old; with old = new it fails and
\* changes nothing.
C27_RenameMovesTheTable ==
  [][\A old, new \in Mailboxes :
       rename_table(old, new) =>
         IF old = new THEN FailedUnchanged
         ELSE tables[old].exists => Moved(old, new)]_vars

\* C27, amended: rename_table(old, new) with old # new moves the table of old to
\* new when new has no table, and fails changing nothing when new has one; with
\* old = new it fails and changes nothing.
C27_RenameMovesToFreeName ==
  [][\A old, new \in Mailboxes :
       rename_table(old, new) =>
         IF old = new \/ tables[new].exists THEN FailedUnchanged
         ELSE tables[old].exists => Moved(old, new)]_vars

\* C27 witness: a rename has moved a table with its row to the other mailbox.
C27_Witness ==
  \E old, new \in Mailboxes :
    /\ ~tables[old].exists
    /\ tables[new] = [exists |-> TRUE, rows |-> {<<1, "h0">>}]
    /\ uidResult = Result("rename_table", "", 0, "")

\* ------------------------------------------ claims: message decomposition

\* C28: the flags payload and the header payload of a decomposed message carry
\* the same chash, the SHA-256 digest of the whole raw text, and the size of the
\* flags payload is the length of the raw text.
C28_ChashAndSizeOfRaw ==
  fdoc # NoPayload =>
    /\ fdoc.chash = hdoc.chash
    /\ fdoc.chash = SHA256(Raw(raw_msg))
    /\ fdoc.size = Len(Raw(raw_msg))

\* C28 witness: a message with two header lines and two parts was decomposed.
C28_Witness ==
  /\ fdoc # NoPayload
  /\ Len(raw_msg.headers) = 2
  /\ Len(raw_msg.parts) = 2
  /\ fdoc.size > 0
  /\ hdoc.chash = SHA256(Raw(raw_msg))

\* the numbers of the header lines of the message that are written with name k
LinesOf(k) == {i \in 1..Len(raw_msg.headers) : raw_msg.headers[i][1] = k}

\* C29: the headers of the header payload have one entry for every header name
\* written in the message; the entry of a name written once is the value, and
\* the entry of a name written on several lines is their values in message
\* order, each but the first after a newline, the name, a colon and a space.
C29_RepeatedHeadersAreJoined ==
  hdoc # NoPayload =>
    /\ DOMAIN hdoc.headers = {raw_msg.headers[i][1] : i \in 1..Len(raw_msg.headers)}
    /\ \A k \in DOMAIN hdoc.headers :
         /\ \A i \in LinesOf(k) :
              LinesOf(k) = {i} => hdoc.headers[k] = raw_msg.headers[i][2]
         /\ \A i, j \in LinesOf(k) :
              (i < j /\ LinesOf(k) = {i, j}) =>
                hdoc.headers[k] =
                  raw_msg.headers[i][2] \o "\n" \o k \o ": " \o raw_msg.headers[j][2]
         /\ \A i, j, l \in LinesOf(k) :
              (i < j /\ j < l /\ LinesOf(k) = {i, j, l}) =>
                hdoc.headers[k] =
                  raw_msg.headers[i][2] \o "\n" \o k \o ": " \o raw_msg.headers[j][2]
                                        \o "\n" \o k \o ": " \o raw_msg.headers[l][2]

\* C29 witness: a message with two Received lines was decomposed, and both values
\* are in the entry.
C29_Witness ==
  /\ hdoc # NoPayload
  /\ raw_msg.headers = <<<<"Received", "a">>, <<"Received", "b">>>>
  /\ hdoc.headers["Received"] = "a\nReceived: b"

\* the numbers of the header lines whose name is `key` in whatever letter case
LinesNamed(key) ==
  {i \in 1..Len(raw_msg.headers) : lower(raw_msg.headers[i][1]) = key}

\* C30: the subject and the date of the header payload are the value of the
\* message's Subject line, respectively Date line, in whatever letter case the
\* name is written, and the empty string when the message has no such line.
C30_SubjectAndDateAreCopied ==
  hdoc # NoPayload =>
    \A key \in {"subject", "date"} :
      /\ LinesNamed(key) = {} => hdoc[key] = ""
      /\ \A i \in LinesNamed(key) :
           LinesNamed(key) = {i} => hdoc[key] = raw_msg.headers[i][2]

\* C31: the content payloads of a decomposed message are keyed 1..n, n being the
\* number of its parts, and the payload of key i is that of the i-th part; a
\* message of one part has the one key 1.
C31_ContentDocsAreOneIndexed ==
  fdoc # NoPayload =>
    /\ DOMAIN cdocs = 1..Len(raw_msg.parts)
    /\ \A i \in DOMAIN cdocs :
         /\ cdocs[i].raw = raw_msg.parts[i]
         /\ cdocs[i].phash = SHA256(raw_msg.parts[i])
    /\ Len(raw_msg.parts) = 1 => DOMAIN cdocs = {1}

\* C31 witness: a message of two parts was decomposed into the content payloads
\* 1 and 2.
C31_Witness ==
  /\ fdoc # NoPayload
  /\ Len(raw_msg.parts) = 2
  /\ DOMAIN cdocs = {1, 2}
  /\ cdocs[2].raw = "<p>hi</p>"

\* C32: no two rows of a mailbox table have the same hash, and an insert_doc of
\* a hash the table holds fails, the tables staying as they were.
C32_HashIsUnique ==
  /\ [](\A m \in Mailboxes : \A r, q \in tables[m].rows : r[2] = q[2] => r = q)
  /\ [][\A m \in Mailboxes, h \in Hashes :
          (insert_doc(m, h) /\ h \in RowHashes(tables[m].rows)) =>
            /\ uidResult'.err # ""
            /\ tables' = tables
            /\ uidPending' = uidPending]_vars

\* C32 witness: an insert_doc has failed on the hash of the one row of a table.
C32_Witness ==
  \E m \in Mailboxes :
    /\ tables[m].rows = {<<1, "h0">>}
    /\ uidIssued = 2
    /\ uidResult = Result("insert_doc", "IntegrityError", 0, "")

\* ------------------------------------------------------ claims: update

\* the keys the schema declares
SchemaKeys == DOMAIN Serialize(DefaultAttrs)

\* C33: a step that changes the content of a stored document is the put_doc of an
\* update on it; afterwards every key the schema declares has the value the
\* wrapper serialized for the write, and every other key of the content is there
\* with the value it had.
C33_UpdateMerges ==
  [][\A id \in 1..Len(docs) :
       docs'[id].content # docs[id].content =>
         \E r \in inflight :
           /\ r.kind = "update" /\ r.stage = "put_doc" /\ r.did = id
           /\ DOMAIN docs'[id].content = DOMAIN docs[id].content \cup SchemaKeys
           /\ \A k \in SchemaKeys : docs'[id].content[k] = r.put[k]
           /\ \A k \in DOMAIN docs[id].content \ SchemaKeys :
                docs'[id].content[k] = docs[id].content[k]]_vars

\* C33 witness: an update has written the counter of a document that has a key
\* the schema does not declare.
C33_Witness ==
  \E id \in 1..Len(docs) :
    /\ DOMAIN docs[id].content # SchemaKeys
    /\ docs[id].rev = 2
    /\ docs[id].content.counter = 1
    /\ docs[id].content.tags = "seen"

\* C34: the wrapper a get_or_create call returns, for a document it created or
\* for one it found, has the identifier of a stored document, that of the
\* document it was made for.
C34_ReturnedWrapperIsAttached ==
  \A k \in 1..Len(gocLog) :
    gocLog[k].res = "wrapper" =>
      /\ gocLog[k].doc_id \in 1..Len(docs)
      /\ docs[gocLog[k].doc_id].content = Serialize(gocLog[k].attrs)

\* ------------------------------------------------------- claims: locks

\* C36: an instance lock or the class lock is held only while a call that took it
\* is running, whatever way the calls before it ended, so a call waits only
\* behind a running one; and a lock that is held is released: the calls that wait
\* for it get it and end.
C36_LocksAreReleased ==
  /\ [](\A w \in Wrappers :
          /\ locked[w] => \E r \in inflight : r.w = w /\ r.lock
          /\ waiting[w] # <<>> => locked[w])
  /\ [](/\ klassLocked => \E c \in gocInflight : c.lock
        /\ klassWaiting # <<>> => klassLocked)
  /\ \A w \in Wrappers : locked[w] ~> (~locked[w] /\ waiting[w] = <<>>)
  /\ klassLocked ~> (~klassLocked /\ klassWaiting = <<>>)

\* C36 witness: a get_or_create call has failed on an unknown index and an update
\* has failed on a detached wrapper, and a later get_or_create call was granted
\* the class lock and has returned a wrapper.
C36_Witness ==
  /\ \E w \in Wrappers :
       \E i \in 1..Len(log[w]) : log[w][i].kind = "update" /\ log[w][i].res # "ok"
  /\ \E i, j \in 1..Len(gocLog) :
       i < j /\ gocLog[i].res = "KeyError" /\ gocLog[j].res = "wrapper"
  /\ ~klassLocked /\ \A w \in Wrappers : ~locked[w]

\* ------------------------------------------------- claims: double create

\* C37: of the create calls issued on one wrapper instance at most one has
\* succeeded, so at most one stored document was created by the instance.
C37_OneDocumentPerWrapper ==
  \A w \in Wrappers :
    Cardinality({i \in 1..Len(log[w]) :
                   log[w][i].kind = "create" /\ log[w][i].res = "ok"}) <= 1

\* ------------------------------------------------------- claims: account

C17_GetAllReturnsEveryDocument ==
  get_all_result.called =>
    /\ get_all_result.err = ""
    /\ get_all_result.value = "wrappers"
    /\ GocQuiet => get_all_result.names = StoredNames

\* --------------------------------------------- claims: index initialisation

\* C3: the deferred of an initialize_store call has fired, and the call has set
\* store_ready, only when no create_index request of that call is pending, the
\* requests that recreate a deleted index included.
C3_ReadyAfterEveryCreate ==
  \A c \in DOMAIN idxCalls :
    (idxCalls[c].stage = "fired" \/ idxCalls[c].ready) =>
      \A o \in idxOps : ~(o.call = c /\ o.kind = "create")

\* C4: when a create_index or delete_index request of an initialize_store call has
\* failed, the deferred of the call has not fired and the call has not set
\* store_ready.
C4_FailedRequestFailsCall ==
  \A c \in DOMAIN idxCalls :
    (\E o \in idxFailed : o.call = c) =>
      idxCalls[c].stage # "fired" /\ ~idxCalls[c].ready

\* every index request made so far, pending or completed
AllIndexOps == idxOps \cup idxDone \cup idxFailed

\* C18: once an initialize_store call has completed successfully, every catalog
\* entry is a live index with exactly its declared field tuple.
C18_ReadyMeansCatalogIsLive ==
  \A c \in DOMAIN idxCalls :
    idxCalls[c].stage = "fired" =>
      \A n \in IndexNames : db_indexes[n] = Catalog[n]

\* C19: when the delete_index of a catalog entry whose live definition differed has
\* completed, a create_index for that same name has been issued by the call.
C19_DeletedIndexIsRecreated ==
  \A o \in idxDone :
    o.kind = "delete" =>
      \E p \in AllIndexOps :
        p.kind = "create" /\ p.call = o.call /\ p.name = o.name /\ p.after = o.name

\* C35: every create_index request that was issued by the callback of a
\* delete_index names the index that was deleted (and so carries the field tuple
\* the catalog declares for it).
C35_RecreateNamesTheDeletedIndex ==
  \A p \in AllIndexOps :
    (p.kind = "create" /\ p.after # "") => p.name = p.after

\* C38: the live index whose name the catalog does not hold stays as it is, and
\* no create_index or delete_index request names it.
C38_ForeignIndexIsLeftAlone ==
  /\ \A n \in DOMAIN db_indexes \ IndexNames : db_indexes[n] = <<"legacy">>
  /\ \A o \in AllIndexOps : o.name \in IndexNames

\* C38 witness: an initialize_store call has deleted a mismatched index and has
\* fired, and the index the catalog does not name is live.
C38_Witness ==
  /\ \E c \in DOMAIN idxCalls : idxCalls[c].stage = "fired"
  /\ \E o \in idxDone : o.kind = "delete"
  /\ db_indexes["by-legacy"] = <<"legacy">>

\* C20: when the store answers the list_indexes of an initialize_store call and
\* every catalog entry is live with its declared field tuple, the call issues no
\* index request, its deferred fires, store_ready is set and the live indexes stay
\* as they are.
C20_InitializeIsIdempotent ==
  [][\A c \in DOMAIN idxCalls :
       ( /\ idxCalls[c].stage = "listing"
         /\ idxCalls'[c].stage # "listing"
         /\ \A n \in IndexNames : db_indexes[n] = Catalog[n] ) =>
         /\ idxCalls'[c].stage = "fired"
         /\ store_ready'
         /\ db_indexes' = db_indexes
         /\ idxOps' = idxOps /\ idxDone' = idxDone /\ idxFailed' = idxFailed
         /\ \A o \in idxOps' \cup idxDone' \cup idxFailed' : o.call # c]_vars

\* C20 witness: a call on a store whose indexes are those of the catalog has
\* completed, store_ready is set and no index request was ever made.
C20_Witness ==
  /\ idxCalls # <<>>
  /\ idxCalls[1].stage = "fired"
  /\ store_ready
  /\ AllIndexOps = {}
  /\ \A n \in IndexNames : db_indexes[n] = Catalog[n]

====
